---- MODULE Spec2Model ----
(***************************************************************************)
(* FiatLux: the in-memory schedule store (DataManager) as a state machine. *)
(*                                                                         *)
(* A calendar date ('YYYY-MM-DD', zero padded) is represented by its day   *)
(* index, publishedAt (an ISO instant) by an integer instant.  The fields  *)
(* queues, rawText, messageId and channelId are carried verbatim and never *)
(* read by the store: they are left out of the record, as is `type`.       *)
(***************************************************************************)
EXTENDS Integers, Sequences, FiniteSets, TLC

\* ---- bounds ------------------------------------------------------------
MaxId == 2
MaxDate == 1
MaxToday == 1
MaxPub == 2
MaxLimit == 1
MaxTokens == 3
MaxSlots == 3
MaxMessages == 2
MaxClock == 11
MaxRand == 2
MaxSessions == 1
MaxCycles == 1
MaxHandlers == 2

\* ---- program constants ---------------------------------------------------
\* getHistory(limit: number = 10)
DefaultLimit == 10
\* Schedules are for local time in Ukraine (Kyiv, east of UTC)
UtcOffsetHours == 2
\* setInterval(() => this.authManager.cleanupOldSessions(), 5 * 60 * 1000)
CleanupPeriodMinutes == 5
\* const maxAge = 10 * 60 * 1000; // 10 minutes
MaxAgeMinutes == 10

Ids == 1..MaxId
Dates == 0..MaxDate
Pubs == 1..MaxPub
Limits == ((0 - MaxLimit)..MaxLimit) \cup {DefaultLimit}

\* interface Schedule
Schedule == [id : Ids, date : Dates, publishedAt : Pubs, archived : BOOLEAN]

\* What ScheduleParser.parseMessage builds: archived starts false.
ScheduleInputs == {s \in Schedule : s.archived = FALSE}

Null == [null |-> TRUE]

\* schedules: DataManager.schedules; today: the local calendar day of the clock;
\* lastOp, arg, ret: the last call made, its argument and its result;
\* pending: the saveSchedule calls that have pushed and not yet returned, each
\* with its caller;
\* service: the fields of FiatLuxService and the position of initialize();
\* env: process.env (API_ID, API_HASH, SESSION_STRING);
\* auth: the clock in minutes and TelegramAuthManager.activeSessions;
\* monitor: the fields of a TelegramChannelMonitor.
\* An object that the specification at hand never constructs is Null.
VARIABLES schedules, today, lastOp, arg, ret, pending, service, env, auth, monitor

vars == <<schedules, today, lastOp, arg, ret, pending, service, env, auth, monitor>>

\* The places that call saveSchedule, each awaiting every call.
Callers == {"loadRecentSchedules", "subscribeToNewMessages", "startPolling",
            "handleRefresh"}

NoPending == {}

\* FiatLuxService after its constructor: a placeholder monitor only (monitor
\* is whether initialize() has created the real TelegramChannelMonitor), not
\* connected, the API server constructed and not listening.  hasCredentials is
\* the local constant of initialize(), connectError the error connect() threw;
\* polling is whether pollingInterval is set, cycle the position of the
\* polling callback, cycles the callbacks that went on to fetch; listens and
\* disconnects count the calls of apiServer.listen and of the monitor's
\* disconnect.
ServiceNew ==
    [pc |-> "constructed", hasCredentials |-> "unknown", monitor |-> FALSE,
     connected |-> FALSE, listening |-> FALSE, subscribed |-> FALSE,
     polling |-> FALSE, connectError |-> "none", isShuttingDown |-> FALSE,
     cycle |-> "idle", cycles |-> 0, listens |-> 0, disconnects |-> 0]

\* process.env: API_ID and API_HASH are absent, the 'your_...' placeholder of
\* the template, or a value; SESSION_STRING is absent, empty or a value.
EnvValues == {"absent", "placeholder", "set"}

SessionStringValues == {"absent", "empty", "set"}

Envs == [apiId : EnvValues, apiHash : EnvValues, sessionString : SessionStringValues]

EnvConfigured == [apiId |-> "set", apiHash |-> "set", sessionString |-> "set"]

\* TelegramAuthManager after construction: no active session.  issued is the
\* set of session ids startAuth has returned so far.
AuthNew == [clock |-> 0, sessions |-> {}, issued |-> {}]

\* ---- array helpers -------------------------------------------------------
\* Array.prototype.findIndex, 1-based; 0 when absent (JS: -1)
FindIndex(seq, id) ==
    IF \E i \in 1..Len(seq) : seq[i].id = id
    THEN CHOOSE i \in 1..Len(seq) :
            /\ seq[i].id = id
            /\ \A j \in 1..(i - 1) : seq[j].id # id
    ELSE 0

\* Array.prototype.slice(0, limit): a negative end counts from the end
Slice0(seq, limit) ==
    LET n == Len(seq)
        e == IF limit < 0 THEN (IF n + limit < 0 THEN 0 ELSE n + limit)
             ELSE (IF limit > n THEN n ELSE limit)
    IN  SubSeq(seq, 1, e)

\* Array.prototype.sort with (a, b) => b.publishedAt - a.publishedAt
\* (stable: equal keys keep their relative order)
RECURSIVE InsertByPublishedDesc(_, _)
InsertByPublishedDesc(sorted, s) ==
    IF sorted = <<>> THEN <<s>>
    ELSE IF Head(sorted).publishedAt >= s.publishedAt
         THEN <<Head(sorted)>> \o InsertByPublishedDesc(Tail(sorted), s)
         ELSE <<s>> \o sorted

RECURSIVE SortByPublishedDesc(_)
SortByPublishedDesc(seq) ==
    IF seq = <<>> THEN <<>>
    ELSE InsertByPublishedDesc(SortByPublishedDesc(SubSeq(seq, 1, Len(seq) - 1)),
                               seq[Len(seq)])

\* ---- dates ---------------------------------------------------------------
\* new Date('YYYY-MM-DD') is UTC midnight of that day; setHours(0,0,0,0)
\* then gives local midnight of the local day that instant falls on.
StartOfDayOfDateString(d) ==
    IF UtcOffsetHours >= 0 THEN d ELSE d - 1

\* getLocalDateString(new Date()): the local calendar day
GetLocalDateString(day) == day

\* ---- DataManager ---------------------------------------------------------
\* ArchiveOne without the "archive schedules from the past" branch
ArchiveOne_NoPastRule(s, newSchedule, now) ==
    IF s.id = newSchedule.id THEN s
    ELSE IF s.archived THEN s
    ELSE IF s.date = newSchedule.date /\ s.publishedAt < newSchedule.publishedAt
         THEN [s EXCEPT !.archived = TRUE]
    ELSE s

\* ArchiveOne that archives every other record of the new record's date
ArchiveOne_SameDateAny(s, newSchedule, now) ==
    IF s.id = newSchedule.id THEN s
    ELSE IF s.archived THEN s
    ELSE IF StartOfDayOfDateString(s.date) < now
         THEN [s EXCEPT !.archived = TRUE]
    ELSE IF s.date = newSchedule.date
         THEN [s EXCEPT !.archived = TRUE]
    ELSE s

ArchiveOne(s, newSchedule, now) ==
    IF s.id = newSchedule.id THEN s
    ELSE IF s.archived THEN s
    ELSE IF StartOfDayOfDateString(s.date) < now
         THEN [s EXCEPT !.archived = TRUE]
    ELSE IF s.date = newSchedule.date /\ s.publishedAt < newSchedule.publishedAt
         THEN [s EXCEPT !.archived = TRUE]
    ELSE s

ArchiveOlderSchedules(seq, newSchedule, now) ==
    [i \in 1..Len(seq) |-> ArchiveOne(seq[i], newSchedule, now)]

\* saveSchedule that pushes without looking for an existing id
SaveScheduleStore_AlwaysPush(seq, schedule, now) ==
    ArchiveOlderSchedules(Append(seq, schedule), schedule, now)

\* saveSchedule that also reconciles on the update path
SaveScheduleStore_ArchiveOnUpdate(seq, schedule, now) ==
    LET existingIndex == FindIndex(seq, schedule.id)
    IN  IF existingIndex >= 1
        THEN ArchiveOlderSchedules([seq EXCEPT ![existingIndex] = schedule],
                                   schedule, now)
        ELSE ArchiveOlderSchedules(Append(seq, schedule), schedule, now)

\* saveSchedule that drops the records it has just archived
SaveScheduleStore_DropSuperseded(seq, schedule, now) ==
    LET existingIndex == FindIndex(seq, schedule.id)
        keep(s) == ~s.archived
    IN  IF existingIndex >= 1
        THEN [seq EXCEPT ![existingIndex] = schedule]
        ELSE SelectSeq(ArchiveOlderSchedules(Append(seq, schedule), schedule, now),
                       keep)

SaveScheduleStore(seq, schedule, now) ==
    LET existingIndex == FindIndex(seq, schedule.id)
    IN  IF existingIndex >= 1
        THEN [seq EXCEPT ![existingIndex] = schedule]
        ELSE ArchiveOlderSchedules(Append(seq, schedule), schedule, now)

\* saveSchedule answering true whatever it did
SaveScheduleReturn_Always(seq, schedule) == TRUE

SaveScheduleReturn(seq, schedule) == FindIndex(seq, schedule.id) = 0

\* isRelevantSchedule without the lower bound `scheduleDate >= today`
IsRelevantSchedule_NoLowerBound(s, now) ==
    /\ StartOfDayOfDateString(s.date) < now + 2

IsRelevantSchedule(s, now) ==
    /\ StartOfDayOfDateString(s.date) >= now
    /\ StartOfDayOfDateString(s.date) < now + 2

FirstOrNull(seq) == IF seq = <<>> THEN Null ELSE seq[1]

\* getCurrentSchedule without the sort by publishedAt
GetCurrentScheduleResult_NoSort(seq, now) ==
    LET todayStr == GetLocalDateString(now)
        keep(s) == s.date = todayStr /\ ~s.archived /\ IsRelevantSchedule(s, now)
    IN  FirstOrNull(SelectSeq(seq, keep))

GetCurrentScheduleResult(seq, now) ==
    LET todayStr == GetLocalDateString(now)
        keep(s) == s.date = todayStr /\ ~s.archived /\ IsRelevantSchedule(s, now)
    IN  FirstOrNull(SortByPublishedDesc(SelectSeq(seq, keep)))

GetFutureScheduleResult(seq, now) ==
    LET tomorrowStr == GetLocalDateString(now + 1)
        keep(s) == s.date = tomorrowStr /\ ~s.archived /\ IsRelevantSchedule(s, now)
    IN  FirstOrNull(SortByPublishedDesc(SelectSeq(seq, keep)))

GetAllSchedulesResult(seq, now) ==
    [current |-> GetCurrentScheduleResult(seq, now),
     future |-> GetFutureScheduleResult(seq, now)]

\* getHistory without slice(0, limit)
GetHistoryResult_NoSlice(seq, now, limit) ==
    LET keep(s) == IsRelevantSchedule(s, now)
    IN  SortByPublishedDesc(SelectSeq(seq, keep))

GetHistoryResult(seq, now, limit) ==
    LET keep(s) == IsRelevantSchedule(s, now)
    IN  Slice0(SortByPublishedDesc(SelectSeq(seq, keep)), limit)

\* a query that sorts this.schedules itself instead of the filtered copy
StoreAfterQuery_SortInPlace(seq) == SortByPublishedDesc(seq)

\* filter() copies, so the sort in a query never reorders this.schedules
StoreAfterQuery(seq) == seq

GetCountResult(seq) == Len(seq)

\* cleanup with the filter inverted
CleanupStore_KeepArchived(seq) ==
    LET keep(s) == s.archived
    IN  SelectSeq(seq, keep)

CleanupStore(seq) ==
    LET keep(s) == ~s.archived
    IN  SelectSeq(seq, keep)

CleanupReturn(seq) == Len(seq) - Len(CleanupStore(seq))

ResetStore(seq) == <<>>

\* ---- state machine -------------------------------------------------------
Init ==
    /\ schedules = <<>>
    /\ today = 0
    /\ lastOp = "new"
    /\ arg = Null
    /\ ret = Null
    /\ pending = NoPending
    /\ service = Null
    /\ env = EnvConfigured
    /\ auth = Null
    /\ monitor = Null

SaveSchedule ==
    \E s \in ScheduleInputs :
        /\ schedules' = SaveScheduleStore(schedules, s, today)
        /\ ret' = SaveScheduleReturn(schedules, s)
        /\ lastOp' = "saveSchedule"
        /\ arg' = s
        /\ UNCHANGED <<today, pending, service, env, auth, monitor>>

GetCurrentSchedule ==
    /\ ret' = GetCurrentScheduleResult(schedules, today)
    /\ schedules' = StoreAfterQuery(schedules)
    /\ lastOp' = "getCurrentSchedule"
    /\ arg' = Null
    /\ UNCHANGED <<today, pending, service, env, auth, monitor>>

GetFutureSchedule ==
    /\ ret' = GetFutureScheduleResult(schedules, today)
    /\ schedules' = StoreAfterQuery(schedules)
    /\ lastOp' = "getFutureSchedule"
    /\ arg' = Null
    /\ UNCHANGED <<today, pending, service, env, auth, monitor>>

GetAllSchedules ==
    /\ ret' = GetAllSchedulesResult(schedules, today)
    /\ schedules' = StoreAfterQuery(schedules)
    /\ lastOp' = "getAllSchedules"
    /\ arg' = Null
    /\ UNCHANGED <<today, pending, service, env, auth, monitor>>

GetHistory ==
    \E limit \in Limits :
        /\ ret' = GetHistoryResult(schedules, today, limit)
        /\ schedules' = StoreAfterQuery(schedules)
        /\ lastOp' = "getHistory"
        /\ arg' = limit
        /\ UNCHANGED <<today, pending, service, env, auth, monitor>>

GetCount ==
    /\ ret' = GetCountResult(schedules)
    /\ schedules' = StoreAfterQuery(schedules)
    /\ lastOp' = "getCount"
    /\ arg' = Null
    /\ UNCHANGED <<today, pending, service, env, auth, monitor>>

CleanupOldSchedules ==
    /\ schedules' = CleanupStore(schedules)
    /\ ret' = CleanupReturn(schedules)
    /\ lastOp' = "cleanupOldSchedules"
    /\ arg' = Null
    /\ UNCHANGED <<today, pending, service, env, auth, monitor>>

Reset ==
    /\ schedules' = ResetStore(schedules)
    /\ ret' = Null
    /\ lastOp' = "reset"
    /\ arg' = Null
    /\ UNCHANGED <<today, pending, service, env, auth, monitor>>

\* The local clock passes midnight; no store operation runs.
Midnight ==
    /\ today < MaxToday
    /\ today' = today + 1
    /\ lastOp' = "midnight"
    /\ arg' = Null
    /\ ret' = Null
    /\ UNCHANGED <<schedules, pending, service, env, auth, monitor>>

\* The operations that write the store, and the clock.
Next ==
    \/ SaveSchedule
    \/ CleanupOldSchedules
    \/ Reset
    \/ Midnight

Spec == Init /\ [][Next]_vars

\* saveSchedule where only the accessors are observed: the call is recorded
\* without its argument and result
SaveScheduleUnrecorded ==
    \E s \in ScheduleInputs :
        /\ schedules' = SaveScheduleStore(schedules, s, today)
        /\ lastOp' = "saveSchedule"
        /\ arg' = Null
        /\ ret' = Null
        /\ UNCHANGED <<today, pending, service, env, auth, monitor>>

\* The same, together with the read-only accessors the API layer calls.
NextQueries ==
    \/ SaveScheduleUnrecorded
    \/ CleanupOldSchedules
    \/ Reset
    \/ Midnight
    \/ GetCurrentSchedule
    \/ GetFutureSchedule
    \/ GetAllSchedules
    \/ GetHistory
    \/ GetCount

SpecQueries == Init /\ [][NextQueries]_vars

\* ---- the callers of saveSchedule -----------------------------------------
\* a saveSchedule that awaits between the push and archiveOlderSchedules
AwaitInsideSave_Yes == TRUE

\* saveSchedule and archiveOlderSchedules contain no await: once a caller is
\* inside saveSchedule no other callback runs until it returns
AwaitInsideSave == FALSE

OtherCallerInside(c) == \E p \in pending : p.caller # c

MayRun(c) == AwaitInsideSave \/ ~OtherCallerInside(c)

\* saveSchedule up to the call of archiveOlderSchedules: findIndex, then the
\* replacement (and return false) or the push
SaveBegin(c) ==
    \E s \in ScheduleInputs :
        /\ MayRun(c)
        /\ ~\E p \in pending : p.caller = c
        /\ LET existingIndex == FindIndex(schedules, s.id)
           IN  IF existingIndex >= 1
               THEN /\ schedules' = [schedules EXCEPT ![existingIndex] = s]
                    /\ UNCHANGED <<pending, service, env, auth, monitor>>
               ELSE /\ schedules' = Append(schedules, s)
                    /\ pending' = pending \cup
                          {[caller |-> c, schedule |-> s, seen |-> Append(schedules, s)]}
        /\ UNCHANGED <<today, lastOp, arg, ret, service, env, auth, monitor>>

\* archiveOlderSchedules(schedule) and return true
SaveReconcile(c) ==
    /\ MayRun(c)
    /\ \E p \in pending :
          /\ p.caller = c
          /\ schedules' = ArchiveOlderSchedules(schedules, p.schedule, today)
          /\ pending' = pending \ {p}
    /\ UNCHANGED <<today, lastOp, arg, ret, service, env, auth, monitor>>

NextCallers ==
    \/ \E c \in Callers : SaveBegin(c)
    \/ \E c \in Callers : SaveReconcile(c)

SpecCallers == Init /\ [][NextCallers]_vars

\* ---- ScheduleParser: texts ------------------------------------------------
\* A text is a sequence of tokens, one per line of the message: a gate
\* keyword (in lower or upper case), plain words, the marker phrase
\* 'години відсутності електропостачання', a "<day> <month name>" date, a
\* numeric "DD.MM" date, the word 'завтра', or a "<main>.<sub>: ..." line.
\* Numerals are sequences of digits, as they stand in the text.
HourTexts == {<<0, 0>>, <<8>>, <<2, 4>>, <<2, 5>>}

MinuteTexts == {<<0, 0>>, <<3, 0>>}

\* a match of /(\d{1,2}):(\d{2})\s*[-–—]\s*(\d{1,2}):(\d{2})/
\* The start hours of the lines: one digit, and over 24.
StartHourTexts == {<<8>>, <<2, 5>>}

SlotTokens ==
    {[k |-> "slot", sh |-> a, sm |-> m, eh |-> b, em |-> <<0, 0>>] :
        a \in StartHourTexts, b \in HourTexts, m \in MinuteTexts}

LineTokens == SlotTokens \cup {[k |-> "text"]}

Lines == UNION {[1..n -> LineTokens] : n \in 0..MaxSlots}

KeywordTokens == {[k |-> "keyword", upper |-> u] : u \in BOOLEAN}

\* "1 грудня", "31 листопада", "32 грудня", "1 січня"
DateTokens ==
    {[k |-> "date", day |-> <<1>>, month |-> 12],
     [k |-> "date", day |-> <<3, 1>>, month |-> 11],
     [k |-> "date", day |-> <<3, 2>>, month |-> 12],
     [k |-> "date", day |-> <<1>>, month |-> 1]}

\* "01.01"
NumericTokens == {[k |-> "numeric", day |-> <<0, 1>>, month |-> <<0, 1>>]}

\* 'завтра'
RelativeTokens == {[k |-> "relative", offset |-> 1]}

\* "1.1: 08:00-12:00" and "1.1: не вимикається"
QueueTokens ==
    {[k |-> "queue", main |-> <<1>>, sub |-> <<1>>,
      line |-> <<[k |-> "slot", sh |-> <<8>>, sm |-> <<0, 0>>,
                  eh |-> <<2, 4>>, em |-> <<0, 0>>]>>],
     [k |-> "queue", main |-> <<1>>, sub |-> <<1>>, line |-> <<[k |-> "text"]>>]}

\* the lines extractQueuesWithSubQueues is about: "<main>.<sub>: <rest>" with
\* the numerals as written ("1.1", "1.01", "1.10", "2.0") and a rest that is
\* "8:00-24:00", "22:30-00:00" or words
QueueLineTokens ==
    {[k |-> "queue", main |-> a, sub |-> b, line |-> l] :
        a \in {<<1>>, <<2>>},
        b \in {<<0>>, <<1>>, <<0, 1>>, <<1, 0>>},
        l \in {<<[k |-> "slot", sh |-> <<8>>, sm |-> <<0, 0>>,
                  eh |-> <<2, 4>>, em |-> <<0, 0>>]>>,
               <<[k |-> "slot", sh |-> <<2, 2>>, sm |-> <<3, 0>>,
                  eh |-> <<0, 0>>, em |-> <<0, 0>>]>>,
               <<[k |-> "text"]>>}}

QueueTexts == UNION {[1..n -> QueueLineTokens \cup {[k |-> "word"]}] : n \in 0..MaxTokens}

Tokens ==
    KeywordTokens \cup {[k |-> "word"], [k |-> "marker"]} \cup DateTokens
        \cup NumericTokens \cup RelativeTokens \cup QueueTokens

Texts == UNION {[1..n -> Tokens] : n \in 0..MaxTokens}

\* Api.Message: message.message may be absent (hasText = FALSE),
\* and message.date is a number, possibly NaN (isNaN = TRUE)
Messages ==
    {[id |-> 1, hasText |-> TRUE, text |-> x, date |-> 1, isNaN |-> n] :
        x \in Texts, n \in BOOLEAN}
        \cup {[id |-> 1, hasText |-> FALSE, text |-> <<>>, date |-> 1, isNaN |-> FALSE]}

\* the local calendar day read by new Date()
RefDates ==
    {[y |-> 2025, m |-> 11, d |-> 29], [y |-> 2025, m |-> 11, d |-> 30],
     [y |-> 2025, m |-> 12, d |-> 31], [y |-> 2026, m |-> 1, d |-> 1]}

ParserInputs == [message : Messages, strict : BOOLEAN, now : RefDates]

\* ---- ScheduleParser: numerals and the calendar -----------------------------
RECURSIVE ParseInt(_)
ParseInt(ds) ==
    IF Len(ds) = 0 THEN 0
    ELSE 10 * ParseInt(SubSeq(ds, 1, Len(ds) - 1)) + ds[Len(ds)]

RECURSIVE ToDigits(_)
ToDigits(n) == IF n < 10 THEN <<n>> ELSE ToDigits(n \div 10) \o <<n % 10>>

RECURSIVE PadStart(_, _)
PadStart(ds, n) == IF Len(ds) >= n THEN ds ELSE PadStart(<<0>> \o ds, n)

IsLeapYear(y) == (y % 4 = 0 /\ y % 100 # 0) \/ y % 400 = 0

DaysInMonth(y, m) ==
    IF m = 2 THEN (IF IsLeapYear(y) THEN 29 ELSE 28)
    ELSE IF m \in {4, 6, 9, 11} THEN 30 ELSE 31

RECURSIVE DaysBeforeMonth(_, _)
DaysBeforeMonth(y, m) ==
    IF m <= 1 THEN 0 ELSE DaysBeforeMonth(y, m - 1) + DaysInMonth(y, m - 1)

DaysBeforeYear(y) ==
    365 * (y - 1) + ((y - 1) \div 4) - ((y - 1) \div 100) + ((y - 1) \div 400)

\* new Date(year, month - 1, day) at local midnight, as a day number; a day
\* beyond the end of the month rolls over into the next month
LocalDate(year, month, day) ==
    DaysBeforeYear(year) + DaysBeforeMonth(year, month) + day - 1

\* startOfDay(new Date())
Today(ref) == LocalDate(ref.y, ref.m, ref.d)

\* startOfDay: a day number carries no time of day
StartOfDay(day) == day

\* ---- ScheduleParser ---------------------------------------------------------
ToLowerCaseToken(tok) ==
    IF tok.k = "keyword" THEN [tok EXCEPT !.upper = FALSE] ELSE tok

ToLowerCase(text) == [i \in 1..Len(text) |-> ToLowerCaseToken(text[i])]

\* a gate that lets every text through
IsScheduleMessage_Always(text) == TRUE

IsScheduleMessage(text) ==
    LET lower == ToLowerCase(text)
    IN  \E i \in 1..Len(lower) : lower[i].k = "keyword" /\ ~lower[i].upper

DetermineScheduleType(date, refDay) ==
    IF StartOfDay(date) > refDay THEN "future" ELSE "current"

\* a relevance test that accepts every date
IsRelevantDate_Always(date, refDay) == TRUE

IsRelevantDate(date, refDay) ==
    LET dayAfterTomorrow == refDay + 2
        scheduleDay == StartOfDay(date)
    IN  scheduleDay >= refDay /\ scheduleDay < dayAfterTomorrow

BuildDateString(day, monthNum, year) ==
    LET d == ParseInt(day)
    IN  IF d < 1 \/ d > 31 \/ monthNum < 1 \/ monthNum > 12
        THEN Null
        ELSE [year |-> year,
              month |-> PadStart(ToDigits(monthNum), 2),
              day |-> PadStart(ToDigits(d), 2)]

ResolveYear(month, ref) ==
    IF ref.m = 12 /\ month = 1 THEN ref.y + 1
    ELSE IF ref.m = 1 /\ month = 12 THEN ref.y - 1
    ELSE ref.y

\* The month names are tried in the order of the MONTHS table; the first name
\* that occurs after a numeral decides, with its first occurrence in the text.
FindUkrainianDate(text, ref) ==
    LET lower == ToLowerCase(text)
        hits == {i \in 1..Len(lower) : lower[i].k = "date"}
    IN  IF hits = {}
        THEN Null
        ELSE LET num == CHOOSE m \in {lower[i].month : i \in hits} :
                            \A i \in hits : m <= lower[i].month
                 first == CHOOSE i \in hits :
                            /\ lower[i].month = num
                            /\ \A j \in hits : lower[j].month = num => i <= j
             IN  BuildDateString(lower[first].day, num, ResolveYear(num, ref))

IndexOfMarker(text) ==
    LET hits == {i \in 1..Len(text) : text[i].k = "marker"}
    IN  IF hits = {} THEN 0 ELSE CHOOSE i \in hits : \A j \in hits : i <= j

ExtractDateResult(text, ref) ==
    LET markerIdx == IndexOfMarker(ToLowerCase(text))
        searchText == IF markerIdx >= 1 THEN SubSeq(text, 1, markerIdx - 1) ELSE text
    IN  FindUkrainianDate(searchText, ref)

\* an extraction that keeps matches whatever their hour fields
RECURSIVE ExtractTimeSlotsFromLineResult_NoHourCheck(_)
ExtractTimeSlotsFromLineResult_NoHourCheck(line) ==
    IF Len(line) = 0 THEN <<>>
    ELSE LET slots == ExtractTimeSlotsFromLineResult_NoHourCheck(SubSeq(line, 1, Len(line) - 1))
             match == line[Len(line)]
         IN  IF match.k # "slot" THEN slots
             ELSE Append(slots,
                         [start |-> [h |-> PadStart(match.sh, 2), m |-> match.sm],
                          end |-> [h |-> PadStart(match.eh, 2), m |-> match.em]])

\* an extraction that rewrites an end of 00:00 to the end of the day
RECURSIVE ExtractTimeSlotsFromLineResult_EndOfDay(_)
ExtractTimeSlotsFromLineResult_EndOfDay(line) ==
    IF Len(line) = 0 THEN <<>>
    ELSE LET slots == ExtractTimeSlotsFromLineResult_EndOfDay(SubSeq(line, 1, Len(line) - 1))
             match == line[Len(line)]
         IN  IF match.k # "slot" THEN slots
             ELSE IF ParseInt(match.sh) > 24 \/ ParseInt(match.eh) > 24 THEN slots
             ELSE Append(slots,
                         [start |-> [h |-> PadStart(match.sh, 2), m |-> match.sm],
                          end |-> IF ParseInt(match.eh) = 0 /\ ParseInt(match.em) = 0
                                  THEN [h |-> <<2, 3>>, m |-> <<5, 9>>]
                                  ELSE [h |-> PadStart(match.eh, 2), m |-> match.em]])

RECURSIVE ExtractTimeSlotsFromLineResult(_)
ExtractTimeSlotsFromLineResult(line) ==
    IF Len(line) = 0 THEN <<>>
    ELSE LET slots == ExtractTimeSlotsFromLineResult(SubSeq(line, 1, Len(line) - 1))
             match == line[Len(line)]
         IN  IF match.k # "slot" THEN slots
             ELSE IF ParseInt(match.sh) > 24 \/ ParseInt(match.eh) > 24 THEN slots
             ELSE Append(slots,
                         [start |-> [h |-> PadStart(match.sh, 2), m |-> match.sm],
                          end |-> [h |-> PadStart(match.eh, 2), m |-> match.em]])

\* queuesMap after the loop over the "<main>.<sub>: ..." lines, in insertion
\* order; set() on a key already present keeps its place
\* a map in which the first line of a key wins
RECURSIVE QueuesMap_FirstWins(_)
QueuesMap_FirstWins(text) ==
    IF Len(text) = 0 THEN <<>>
    ELSE LET map == QueuesMap_FirstWins(SubSeq(text, 1, Len(text) - 1))
             match == text[Len(text)]
         IN  IF match.k # "queue" THEN map
             ELSE LET key == <<match.main, match.sub>>
                      timeSlots == ExtractTimeSlotsFromLineResult(match.line)
                      at == {i \in 1..Len(map) : map[i].key = key}
                  IN  IF Len(timeSlots) = 0 \/ at # {} THEN map
                      ELSE Append(map, [key |-> key, timeSlots |-> timeSlots])

RECURSIVE QueuesMap(_)
QueuesMap(text) ==
    IF Len(text) = 0 THEN <<>>
    ELSE LET map == QueuesMap(SubSeq(text, 1, Len(text) - 1))
             match == text[Len(text)]
         IN  IF match.k # "queue" THEN map
             ELSE LET key == <<match.main, match.sub>>
                      timeSlots == ExtractTimeSlotsFromLineResult(match.line)
                      at == {i \in 1..Len(map) : map[i].key = key}
                  IN  IF Len(timeSlots) = 0 THEN map
                      ELSE IF at # {}
                      THEN [i \in 1..Len(map) |->
                               IF i \in at THEN [key |-> key, timeSlots |-> timeSlots]
                               ELSE map[i]]
                      ELSE Append(map, [key |-> key, timeSlots |-> timeSlots])

\* queueNumber = main + sub / 10, kept in tenths
QueueOfEntry(entry) ==
    [queueNumber |-> 10 * ParseInt(entry.key[1]) + ParseInt(entry.key[2]),
     timeSlots |-> entry.timeSlots,
     description |-> entry.key]

RECURSIVE InsertByQueueNumber(_, _)
InsertByQueueNumber(sorted, q) ==
    IF Len(sorted) = 0 THEN <<q>>
    ELSE IF sorted[Len(sorted)].queueNumber <= q.queueNumber THEN Append(sorted, q)
    ELSE Append(InsertByQueueNumber(SubSeq(sorted, 1, Len(sorted) - 1), q),
                sorted[Len(sorted)])

RECURSIVE SortByQueueNumber(_)
SortByQueueNumber(seq) ==
    IF Len(seq) = 0 THEN <<>>
    ELSE InsertByQueueNumber(SortByQueueNumber(SubSeq(seq, 1, Len(seq) - 1)),
                             seq[Len(seq)])

ExtractQueuesWithSubQueues(text) ==
    LET map == QueuesMap(text)
    IN  SortByQueueNumber([i \in 1..Len(map) |-> QueueOfEntry(map[i])])

\* a parser that builds the Schedule whatever the queues are
QueuesRejected_Never(queues) == FALSE

\* the two rejections of parseMessage on the extracted queues
QueuesRejected(queues) ==
    \/ Len(queues) = 0
    \/ ~\E i \in 1..Len(queues) : Len(queues[i].timeSlots) > 0

\* The try block of parseMessage: the value returned, the extractors called
\* on the way, and whether an exception left the block (toISOString throws a
\* RangeError on new Date(NaN)).
ParseMessageTry(message, strict, ref) ==
    LET text == message.text
        date == ExtractDateResult(text, ref)
        queues == ExtractQueuesWithSubQueues(text)
        scheduleDate == LocalDate(date.year, ParseInt(date.month), ParseInt(date.day))
        type == DetermineScheduleType(scheduleDate, Today(ref))
    IN  IF date = Null
        THEN [value |-> Null, threw |-> FALSE,
              calls |-> <<"isScheduleMessage", "extractDate">>]
        ELSE IF QueuesRejected(queues)
        THEN [value |-> Null, threw |-> FALSE,
              calls |-> <<"isScheduleMessage", "extractDate",
                          "extractQueuesWithSubQueues">>]
        ELSE IF strict /\ ~IsRelevantDate(scheduleDate, Today(ref))
        THEN [value |-> Null, threw |-> FALSE,
              calls |-> <<"isScheduleMessage", "extractDate",
                          "extractQueuesWithSubQueues", "isRelevantDate">>]
        ELSE [value |-> IF message.isNaN THEN Null
                        ELSE [id |-> <<message.id, date>>,
                              type |-> type,
                              date |-> date,
                              queues |-> queues,
                              rawText |-> text,
                              publishedAt |-> message.date * 1000,
                              messageId |-> message.id,
                              archived |-> FALSE],
              threw |-> message.isNaN,
              calls |-> <<"isScheduleMessage", "extractDate",
                          "extractQueuesWithSubQueues">>
                          \o (IF strict THEN <<"isRelevantDate">> ELSE <<>>)
                          \o <<"determineScheduleType">>]

\* a parseMessage without the catch clause
ParseMessageResult_NoCatch(message, strict, ref) ==
    IF ~message.hasText \/ Len(message.text) = 0
    THEN [value |-> Null, threw |-> FALSE, calls |-> <<>>]
    ELSE IF ~IsScheduleMessage(message.text)
    THEN [value |-> Null, threw |-> FALSE, calls |-> <<"isScheduleMessage">>]
    ELSE ParseMessageTry(message, strict, ref)

\* parseMessage: the gate, the try block, and the catch that turns an
\* exception into null
ParseMessageResult(message, strict, ref) ==
    IF ~message.hasText \/ Len(message.text) = 0
    THEN [value |-> Null, threw |-> FALSE, calls |-> <<>>]
    ELSE IF ~IsScheduleMessage(message.text)
    THEN [value |-> Null, threw |-> FALSE, calls |-> <<"isScheduleMessage">>]
    ELSE [ParseMessageTry(message, strict, ref) EXCEPT !.value =
              IF ParseMessageTry(message, strict, ref).threw THEN Null ELSE @,
              !.threw = FALSE]

\* a reduce that gives up at the first message without a schedule
RECURSIVE ParseMessagesResult_StopAtNull(_, _, _)
ParseMessagesResult_StopAtNull(messages, strict, ref) ==
    IF Len(messages) = 0 THEN <<>>
    ELSE LET schedule == ParseMessageResult(messages[1], strict, ref).value
         IN  IF schedule = Null THEN <<>>
             ELSE <<schedule>> \o ParseMessagesResult_StopAtNull(
                                      SubSeq(messages, 2, Len(messages)), strict, ref)

\* parseMessages: the reduce that pushes every schedule parseMessage returns
RECURSIVE ParseMessagesResult(_, _, _)
ParseMessagesResult(messages, strict, ref) ==
    IF Len(messages) = 0 THEN <<>>
    ELSE LET acc == ParseMessagesResult(SubSeq(messages, 1, Len(messages) - 1), strict, ref)
             schedule == ParseMessageResult(messages[Len(messages)], strict, ref).value
         IN  IF schedule # Null THEN Append(acc, schedule) ELSE acc

\* ---- ScheduleParser: state machines ------------------------------------------
\* One call of the parser on a message drawn from Messages, at a reference
\* day drawn from RefDates; the store is not involved.
InitParser ==
    /\ schedules = <<>>
    /\ pending = NoPending
    /\ service = Null
    /\ env = EnvConfigured
    /\ auth = Null
    /\ monitor = Null
    /\ lastOp = "input"
    /\ arg \in ParserInputs
    /\ today = Today(arg.now)
    /\ ret = Null

ParseMessage ==
    /\ lastOp = "input"
    /\ lastOp' = "parseMessage"
    /\ ret' = ParseMessageResult(arg.message, arg.strict, arg.now)
    /\ UNCHANGED <<schedules, today, arg, pending, service, env, auth, monitor>>

ExtractDate ==
    /\ lastOp = "input"
    /\ arg.message.hasText
    /\ lastOp' = "extractDate"
    /\ ret' = ExtractDateResult(arg.message.text, arg.now)
    /\ UNCHANGED <<schedules, today, arg, pending, service, env, auth, monitor>>

NextParser == ParseMessage \/ ExtractDate

SpecParser == InitParser /\ [][NextParser]_vars

\* One call of extractTimeSlotsFromLine on a line drawn from Lines.
InitSlots ==
    /\ schedules = <<>>
    /\ pending = NoPending
    /\ service = Null
    /\ env = EnvConfigured
    /\ auth = Null
    /\ monitor = Null
    /\ today = 0
    /\ lastOp = "input"
    /\ arg \in [line : Lines]
    /\ ret = Null

ExtractTimeSlotsFromLine ==
    /\ lastOp = "input"
    /\ lastOp' = "extractTimeSlotsFromLine"
    /\ ret' = ExtractTimeSlotsFromLineResult(arg.line)
    /\ UNCHANGED <<schedules, today, arg, pending, service, env, auth, monitor>>

NextSlots == ExtractTimeSlotsFromLine

SpecSlots == InitSlots /\ [][NextSlots]_vars

\* One call of extractQueuesWithSubQueues on a text drawn from QueueTexts.
InitQueues ==
    /\ schedules = <<>>
    /\ pending = NoPending
    /\ service = Null
    /\ env = EnvConfigured
    /\ auth = Null
    /\ monitor = Null
    /\ today = 0
    /\ lastOp = "input"
    /\ arg \in [text : QueueTexts]
    /\ ret = Null

ExtractQueues ==
    /\ lastOp = "input"
    /\ lastOp' = "extractQueuesWithSubQueues"
    /\ ret' = ExtractQueuesWithSubQueues(arg.text)
    /\ UNCHANGED <<schedules, today, arg, pending, service, env, auth, monitor>>

NextQueues == ExtractQueues

SpecQueues == InitQueues /\ [][NextQueues]_vars

\* The messages of a batch: a schedule for 1 грудня, one for 1 січня, a
\* message without a date, one without a keyword, one whose queue line has
\* no time slot, one without text, and each of them with a NaN date.
BatchTexts ==
    {<<[k |-> "keyword", upper |-> FALSE], d, q>> : d \in DateTokens, q \in QueueTokens}
        \cup {<<[k |-> "keyword", upper |-> FALSE], [k |-> "word"]>>}
        \cup {<<[k |-> "word"]>>}

BatchMessages ==
    {m \in Messages : m.hasText => m.text \in BatchTexts}

Batches == UNION {[1..n -> BatchMessages] : n \in 0..MaxMessages}

\* One call of parseMessages on a batch drawn from Batches.
InitBatch ==
    /\ schedules = <<>>
    /\ pending = NoPending
    /\ service = Null
    /\ env = EnvConfigured
    /\ auth = Null
    /\ monitor = Null
    /\ lastOp = "input"
    /\ arg \in [messages : Batches, strict : BOOLEAN, now : RefDates]
    /\ today = Today(arg.now)
    /\ ret = Null

ParseMessages ==
    /\ lastOp = "input"
    /\ lastOp' = "parseMessages"
    /\ ret' = ParseMessagesResult(arg.messages, arg.strict, arg.now)
    /\ UNCHANGED <<schedules, today, arg, pending, service, env, auth, monitor>>

NextBatch == ParseMessages

SpecBatch == InitBatch /\ [][NextBatch]_vars

\* ---- helpers of the properties ---------------------------------------------
Indices(seq) == 1..Len(seq)

HasId(seq, id) == \E i \in Indices(seq) : seq[i].id = id

ActiveOn(seq, d) == {i \in Indices(seq) : seq[i].date = d /\ ~seq[i].archived}

\* C1: after any sequence of saveSchedule, cleanupOldSchedules and reset
\* calls the store holds, for every calendar date, at most one record whose
\* archived flag is false.
C1_AtMostOneActivePerDate ==
    \A d \in Dates : Cardinality(ActiveOn(schedules, d)) <= 1

\* C2: last-publish-wins.  Two schedules with distinct ids, the same date
\* (today or tomorrow) and different publishedAt are saved on an empty store,
\* in either order (the store holding just the first one is the state after
\* the first save); then exactly one of the two is non-archived and it is the
\* one with the later publishedAt.
C2_LastPublishWins ==
    [][(/\ Len(schedules) = 1
        /\ ~schedules[1].archived
        /\ lastOp' = "saveSchedule"
        /\ arg'.id # schedules[1].id
        /\ arg'.date = schedules[1].date
        /\ arg'.date \in {today, today + 1}
        /\ arg'.publishedAt # schedules[1].publishedAt)
       => (/\ Len(schedules') = 2
           /\ Cardinality(ActiveOn(schedules', arg'.date)) = 1
           /\ \A i \in ActiveOn(schedules', arg'.date) :
                 \A j \in Indices(schedules') :
                    schedules'[j].publishedAt <= schedules'[i].publishedAt)]_vars

\* C3: archiving is one-way.  Once the store holds a record with a given id
\* and archived = true, no store operation results in the store holding a
\* record with that id and archived = false.
C3_ArchivedIsOneWay ==
    [][\A i \in Indices(schedules) :
          schedules[i].archived =>
             \A j \in Indices(schedules') :
                schedules'[j].id = schedules[i].id => schedules'[j].archived]_vars

\* C4: saveSchedule is idempotent per id.  A saveSchedule call with an id the
\* store already holds (the second of two calls with that id) leaves exactly
\* one record for that id, equal to the schedule passed to this call, and
\* the record count is what it was before the call.
C4_SaveIdempotentPerId ==
    [][(lastOp' = "saveSchedule" /\ HasId(schedules, arg'.id))
       => (/\ Len(schedules') = Len(schedules)
           /\ Cardinality({j \in Indices(schedules') :
                              schedules'[j].id = arg'.id}) = 1
           /\ \A j \in Indices(schedules') :
                 schedules'[j].id = arg'.id => schedules'[j] = arg')]_vars

\* C4 witness: an update has happened in a store holding another record, and
\* it replaced an archived record by the content passed.
W4_UpdateHappened ==
    /\ lastOp = "saveSchedule"
    /\ ret = FALSE
    /\ Len(schedules) >= 2
    /\ \E j \in Indices(schedules) : schedules[j] = arg

\* C5: on the update path (the id already exists) archival reconciliation
\* does not run: every record with a different id is left exactly as it was,
\* at its place, even if it is past-dated or an older same-date record.
C5_UpdateLeavesOthersAlone ==
    [][(lastOp' = "saveSchedule" /\ HasId(schedules, arg'.id))
       => \A i \in Indices(schedules) :
             schedules[i].id # arg'.id
                => (i <= Len(schedules') /\ schedules'[i] = schedules[i])]_vars

\* C5 witness: after an update, the store still holds a non-archived
\* past-dated record and a non-archived older record for the updated date.
W5_UpdateWithArchivableOthers ==
    /\ lastOp = "saveSchedule"
    /\ ret = FALSE
    /\ \E i \in Indices(schedules) :
          /\ schedules[i].id # arg.id
          /\ ~schedules[i].archived
          /\ schedules[i].date < today
    /\ \E i \in Indices(schedules) :
          /\ schedules[i].id # arg.id
          /\ ~schedules[i].archived
          /\ schedules[i].date = arg.date
          /\ schedules[i].publishedAt < arg.publishedAt

\* C6: after any saveSchedule call that inserts a new id, every other record
\* whose date is strictly before today is archived, whatever the date of the
\* inserted record is.
C6_InsertArchivesPastRecords ==
    [][(lastOp' = "saveSchedule" /\ ~HasId(schedules, arg'.id))
       => \A j \in Indices(schedules') :
             (schedules'[j].id # arg'.id /\ schedules'[j].date < today')
                => schedules'[j].archived]_vars

\* C6 witness: an insert for today has happened while the store holds a
\* record of another, past date, published later than the inserted one; it
\* is archived.
W6_InsertWithPastRecord ==
    /\ lastOp = "saveSchedule"
    /\ ret = TRUE
    /\ arg.date = today
    /\ \E j \in Indices(schedules) :
          /\ schedules[j].id # arg.id
          /\ schedules[j].date < today
          /\ schedules[j].publishedAt > arg.publishedAt
          /\ schedules[j].archived

\* r is the non-archived record dated d with the greatest publishedAt, or
\* null when the store holds no non-archived record dated d.
IsLatestActiveOn(r, d) ==
    IF ActiveOn(schedules, d) = {}
    THEN r = Null
    ELSE \E i \in ActiveOn(schedules, d) :
            /\ r = schedules[i]
            /\ \A j \in ActiveOn(schedules, d) :
                  schedules[j].publishedAt <= r.publishedAt

\* C7: in every reachable store state getCurrentSchedule returns the
\* non-archived record dated today with the greatest publishedAt (null when
\* there is none), getFutureSchedule the same for tomorrow, and
\* getAllSchedules returns exactly that pair.
C7_QueriesReturnLatestActive ==
    /\ IsLatestActiveOn(GetCurrentScheduleResult(schedules, today), today)
    /\ IsLatestActiveOn(GetFutureScheduleResult(schedules, today), today + 1)
    /\ IsLatestActiveOn(GetAllSchedulesResult(schedules, today).current, today)
    /\ IsLatestActiveOn(GetAllSchedulesResult(schedules, today).future, today + 1)
    /\ lastOp = "getCurrentSchedule" => IsLatestActiveOn(ret, today)
    /\ lastOp = "getFutureSchedule" => IsLatestActiveOn(ret, today + 1)
    /\ lastOp = "getAllSchedules" =>
          /\ DOMAIN ret = {"current", "future"}
          /\ ret.current = GetCurrentScheduleResult(schedules, today)
          /\ ret.future = GetFutureScheduleResult(schedules, today)
          /\ IsLatestActiveOn(ret.current, today)
          /\ IsLatestActiveOn(ret.future, today + 1)

\* C7 witness: getCurrentSchedule has answered from a store that holds two
\* non-archived records dated today, the later-published one stored last.
W7_CurrentAmongSeveral ==
    /\ lastOp = "getCurrentSchedule"
    /\ Len(schedules) = 2
    /\ ActiveOn(schedules, today) = {1, 2}
    /\ schedules[1].publishedAt < schedules[2].publishedAt
    /\ ret = schedules[2]

\* C8 as stated: for every store state and every limit passed to getHistory
\* the result contains no more than limit records, every returned record is
\* dated today or tomorrow, and the records are ordered by publishedAt
\* descending.
C8_HistoryForEveryLimit ==
    lastOp = "getHistory" =>
       /\ Len(ret) <= arg
       /\ \A k \in Indices(ret) : ret[k].date \in {today, today + 1}
       /\ \A k \in 1..(Len(ret) - 1) : ret[k].publishedAt >= ret[k + 1].publishedAt

\* C8 amended: for every store state and every limit >= 0 passed to
\* getHistory the result contains no more than limit records, every returned
\* record is dated today or tomorrow, and the records are ordered by
\* publishedAt descending (a negative limit makes slice drop records from
\* the end instead of capping the count).
C8_HistoryForNonNegativeLimit ==
    lastOp = "getHistory" =>
       /\ arg >= 0 => Len(ret) <= arg
       /\ \A k \in Indices(ret) : ret[k].date \in {today, today + 1}
       /\ \A k \in 1..(Len(ret) - 1) : ret[k].publishedAt >= ret[k + 1].publishedAt

\* C8 witness: getHistory(1) has answered from a store with two records in
\* the window; the result holds one of them, the later-published one.
W8_HistoryTruncated ==
    /\ lastOp = "getHistory"
    /\ arg = 1
    /\ Len(ret) = 1
    /\ Len(schedules) = 2
    /\ \A i \in Indices(schedules) : schedules[i].date \in {today, today + 1}
    /\ schedules[1].publishedAt < schedules[2].publishedAt
    /\ ret[1] = schedules[2]

QueryOps == {"getCurrentSchedule", "getFutureSchedule", "getAllSchedules",
             "getHistory", "getCount"}

\* C9: the query operations getCurrentSchedule, getFutureSchedule,
\* getAllSchedules, getHistory and getCount leave the store unchanged: the
\* same records, in the same order, with the same fields.
C9_QueriesLeaveStoreUnchanged ==
    [][lastOp' \in QueryOps => schedules' = schedules]_vars

\* C9 witness: getHistory has returned two records in an order that differs
\* from the order of the store, which still has its own order.
W9_HistorySortedACopy ==
    /\ lastOp = "getHistory"
    /\ Len(ret) = 2
    /\ Len(schedules) = 2
    /\ ret[1] = schedules[2]
    /\ ret[2] = schedules[1]
    /\ ret[1] # ret[2]

\* C10: cleanupOldSchedules removes every record with archived = true and no
\* record with archived = false, returns the number of records removed, and
\* getCount drops by exactly that number.
C10_CleanupRemovesExactlyArchived ==
    [][lastOp' = "cleanupOldSchedules"
       => (/\ \A j \in Indices(schedules') : ~schedules'[j].archived
           /\ \A i \in Indices(schedules) :
                 ~schedules[i].archived
                    => \E j \in Indices(schedules') : schedules'[j] = schedules[i]
           /\ \A j \in Indices(schedules') :
                 \E i \in Indices(schedules) : schedules[i] = schedules'[j]
           /\ ret' = Cardinality({i \in Indices(schedules) : schedules[i].archived})
           /\ GetCountResult(schedules') = GetCountResult(schedules) - ret'
           /\ Len(schedules') = Len(schedules) - ret')]_vars

\* C10 witness: a cleanup has removed a record and kept another.
W10_CleanupRemovedSome ==
    /\ lastOp = "cleanupOldSchedules"
    /\ ret >= 1
    /\ Len(schedules) >= 1

\* C11: a record leaves the store only through cleanupOldSchedules (and then
\* only if it is archived) or reset: no saveSchedule call, insert or update,
\* makes an id that was present absent, and archiving removes nothing.
C11_RemovedOnlyByCleanupOrReset ==
    [][\A i \in Indices(schedules) :
          ~HasId(schedules', schedules[i].id)
             => \/ lastOp' = "reset"
                \/ (lastOp' = "cleanupOldSchedules" /\ schedules[i].archived)]_vars

\* C11 witness: an insert has happened and the store still holds an archived
\* record of another id.
W11_ArchivedRecordKept ==
    /\ lastOp = "saveSchedule"
    /\ ret = TRUE
    /\ \E j \in Indices(schedules) :
          schedules[j].id # arg.id /\ schedules[j].archived

\* C12: under any interleaving of the saveSchedule calls of the startup load
\* loop, the polling loop, the refresh handler and the new-message handler the
\* store never holds two records with the same id, and a caller that has
\* pushed its record finds the store as it left it when its reconciliation
\* pass runs.
C12_SavesAreAtomic ==
    /\ \A i \in Indices(schedules) : \A j \in Indices(schedules) :
          schedules[i].id = schedules[j].id => i = j
    /\ \A p \in pending : schedules = p.seen
    /\ Cardinality(pending) <= 1

\* C12 witness: the polling loop has pushed a record next to one saved
\* before and is about to reconcile.
W12_ReconcileAboutToRun ==
    /\ \E p \in pending : p.caller = "startPolling" /\ schedules[Len(schedules)] = p.schedule
    /\ Len(schedules) = 2
    /\ ~schedules[1].archived
    /\ schedules[1].date = schedules[2].date
    /\ schedules[1].publishedAt < schedules[2].publishedAt

\* ---- ScheduleParser: helpers of the properties ------------------------------
\* a slot match whose hour fields are both at most 24
IsAcceptedMatch(tok) ==
    tok.k = "slot" /\ ParseInt(tok.sh) <= 24 /\ ParseInt(tok.eh) <= 24

\* a "<main>.<sub>: ..." line holding at least one accepted match
IsQueueLineWithSlot(tok) ==
    tok.k = "queue" /\ \E j \in 1..Len(tok.line) : IsAcceptedMatch(tok.line[j])

\* the part of the text in front of the marker phrase
TextBeforeMarker(text) ==
    IF IndexOfMarker(text) >= 1 THEN SubSeq(text, 1, IndexOfMarker(text) - 1) ELSE text

\* the calendar day a date string names
DayOfDateString(date) == LocalDate(date.year, ParseInt(date.month), ParseInt(date.day))

\* the date string of the reference day
DateStringOfRef(ref) ==
    [year |-> ref.y, month |-> PadStart(ToDigits(ref.m), 2),
     day |-> PadStart(ToDigits(ref.d), 2)]

\* C13: parseMessage never returns a Schedule whose queues list is empty or
\* whose queues hold no time slot at all; a message without any queue line
\* that has a time slot yields null.
C13_ScheduleHasATimeSlot ==
    lastOp = "parseMessage" =>
        /\ ret.value # Null =>
              /\ Len(ret.value.queues) > 0
              /\ \E i \in 1..Len(ret.value.queues) :
                    Len(ret.value.queues[i].timeSlots) > 0
        /\ (\A i \in 1..Len(arg.message.text) :
               ~IsQueueLineWithSlot(arg.message.text[i])) => ret.value = Null

\* C13 witness: a keyword-bearing message with a date whose only queue line
\* has no time slot was rejected after the queue extraction.
W13_RejectedForNoSlots ==
    /\ lastOp = "parseMessage"
    /\ ret.value = Null
    /\ ret.calls = <<"isScheduleMessage", "extractDate", "extractQueuesWithSubQueues">>
    /\ \E i \in 1..Len(arg.message.text) : arg.message.text[i].k = "queue"

\* C14: a message whose text is absent, empty or without any gate keyword
\* (in whatever case) does not pass the gate: isScheduleMessage is false on
\* its text and parseMessage returns null without having called the date or
\* the queue extraction.
C14_GateRejectsBeforeExtraction ==
    (/\ lastOp = "parseMessage"
     /\ \/ ~arg.message.hasText
        \/ \A i \in 1..Len(arg.message.text) : arg.message.text[i].k # "keyword")
    => /\ ret.value = Null
       /\ arg.message.hasText => ~IsScheduleMessage(arg.message.text)
       /\ \A i \in 1..Len(ret.calls) :
             ret.calls[i] \notin {"extractDate", "extractQueuesWithSubQueues"}

\* C14 witness: a message with a date and a good queue line but no keyword
\* was rejected at the gate.
W14_RejectedAtGate ==
    /\ lastOp = "parseMessage"
    /\ ret.value = Null
    /\ ret.calls = <<"isScheduleMessage">>
    /\ \E i \in 1..Len(arg.message.text) : arg.message.text[i].k = "date"
    /\ \E i \in 1..Len(arg.message.text) : IsQueueLineWithSlot(arg.message.text[i])

\* C15: with strict = true parseMessage returns a Schedule only if the day
\* its date names is today or tomorrow at parse time (start of day within
\* [today, today + 2 days)); for every other date it returns null.
C15_StrictKeepsTodayAndTomorrow ==
    (lastOp = "parseMessage" /\ arg.strict /\ ret.value # Null)
    => /\ DayOfDateString(ret.value.date) >= today
       /\ DayOfDateString(ret.value.date) < today + 2

\* C15 witness: a strict call returned a Schedule dated tomorrow.
W15_StrictReturnedTomorrow ==
    /\ lastOp = "parseMessage"
    /\ arg.strict
    /\ ret.value # Null
    /\ DayOfDateString(ret.value.date) = today + 1

\* C16: determineScheduleType gives 'future' for tomorrow and 'current' for
\* today and for every other date, earlier than today or later than tomorrow.
C16_TypeIsFutureOnlyForTomorrow ==
    (lastOp = "parseMessage" /\ ret.value # Null)
    => ret.value.type =
          (IF DayOfDateString(ret.value.date) = today + 1 THEN "future" ELSE "current")

\* C17: a date without a year, written with a month name or as DD.MM, is
\* resolved to the reference year, to the next year for a January date seen
\* in December and to the previous year for a December date seen in January.
C17_YearResolvedForBothForms ==
    (/\ lastOp = "extractDate"
     /\ LET search == TextBeforeMarker(arg.message.text)
        IN  /\ Cardinality({i \in 1..Len(search) : search[i].k \in {"date", "numeric"}}) = 1
            /\ \A i \in 1..Len(search) :
                  search[i].k = "date" => ParseInt(search[i].day) \in 1..31)
    => LET search == TextBeforeMarker(arg.message.text)
           at == CHOOSE i \in 1..Len(search) : search[i].k \in {"date", "numeric"}
           month == IF search[at].k = "date" THEN search[at].month
                    ELSE ParseInt(search[at].month)
       IN  /\ ret # Null
           /\ ret.year = (IF arg.now.m = 12 /\ month = 1 THEN arg.now.y + 1
                          ELSE IF arg.now.m = 1 /\ month = 12 THEN arg.now.y - 1
                          ELSE arg.now.y)

\* C18: a day + month candidate with a day outside 1..31 or a month outside
\* 1..12 counts as a non-match: the resolved date is the one the text gives
\* without that candidate.
C18_OutOfRangeIsANonMatch ==
    lastOp = "extractDate" =>
        LET inRange(tok) ==
                tok.k = "date" => (ParseInt(tok.day) \in 1..31 /\ tok.month \in 1..12)
        IN  ret = ExtractDateResult(SelectSeq(arg.message.text, inRange), arg.now)

\* C19: a keyword-bearing message with a valid queue line and no date of any
\* form (month name, numeric, relative keyword) yields a Schedule dated with
\* the reference date.
C19_NoDateDefaultsToToday ==
    (/\ lastOp = "parseMessage"
     /\ \E i \in 1..Len(arg.message.text) : arg.message.text[i].k = "keyword"
     /\ \E i \in 1..Len(arg.message.text) : IsQueueLineWithSlot(arg.message.text[i])
     /\ \A i \in 1..Len(arg.message.text) :
           arg.message.text[i].k \notin {"date", "numeric", "relative"})
    => /\ ret.value # Null
       /\ ret.value.date = DateStringOfRef(arg.now)

\* C20: extractTimeSlotsFromLine emits one slot for each match whose two
\* hour fields are at most 24 and none for the others, in the order of the
\* line, duplicates included, each hour field padded to two digits and the
\* minute fields as written.
C20_SlotsOfAcceptedMatches ==
    lastOp = "extractTimeSlotsFromLine" =>
        LET kept == SelectSeq(arg.line, IsAcceptedMatch)
        IN  /\ Len(ret) = Len(kept)
            /\ \A i \in 1..Len(kept) :
                  /\ Len(ret[i].start.h) = 2
                  /\ Len(ret[i].end.h) = 2
                  /\ ParseInt(ret[i].start.h) = ParseInt(kept[i].sh)
                  /\ ParseInt(ret[i].end.h) = ParseInt(kept[i].eh)
                  /\ ret[i].start.m = kept[i].sm
                  /\ ret[i].end.m = kept[i].em

\* C20 witness: of "8:00-24:00", "25:00-8:00", "8:00-24:00" the first and the
\* third were emitted, as "08:00-24:00" twice.
W20_DuplicateKeptOver24Dropped ==
    /\ lastOp = "extractTimeSlotsFromLine"
    /\ Len(arg.line) = 3
    /\ IsAcceptedMatch(arg.line[1])
    /\ arg.line[2].k = "slot" /\ ~IsAcceptedMatch(arg.line[2])
    /\ arg.line[3] = arg.line[1]
    /\ Len(ret) = 2
    /\ ret[1] = ret[2]
    /\ ret[1].start.h = <<0, 8>>
    /\ ret[1].end.h = <<2, 4>>

\* ---- ScheduleParser: queues, batches, failures -------------------------------
\* the lines of a text that carry the key
LinesOfKey(text, key) ==
    {i \in 1..Len(text) : text[i].k = "queue" /\ <<text[i].main, text[i].sub>> = key}

\* the lines of a text that carry the key and hold at least one time slot
LinesOfKeyWithSlots(text, key) ==
    {i \in LinesOfKey(text, key) : Len(ExtractTimeSlotsFromLineResult(text[i].line)) > 0}

LastOf(S) == CHOOSE i \in S : \A j \in S : j <= i

C22_QueuesSortedAndDistinct ==
    lastOp = "extractQueuesWithSubQueues" =>
        \A i \in 1..Len(ret) : \A j \in 1..Len(ret) :
            i < j => ret[i].queueNumber < ret[j].queueNumber

C24_BatchIsTheParsedMessages ==
    lastOp = "parseMessages" =>
        LET parsed(i) == ParseMessageResult(arg.messages[i], arg.strict, arg.now).value
            hits == {i \in 1..Len(arg.messages) : parsed(i) # Null}
        IN  /\ Len(ret) = Cardinality(hits)
            /\ \A i \in hits :
                  ret[Cardinality({n \in hits : n <= i})] = parsed(i)

\* C24 witness: a batch whose first message failed inside parsing (NaN date)
\* and whose second message, a different one, was parsed.
W24_FailureThenSchedule ==
    /\ lastOp = "parseMessages"
    /\ Len(arg.messages) = 2
    /\ arg.messages[1].hasText
    /\ IsScheduleMessage(arg.messages[1].text)
    /\ ParseMessageTry(arg.messages[1], arg.strict, arg.now).threw
    /\ arg.messages[2].text # arg.messages[1].text
    /\ Len(ret) = 1
    /\ ret[1].rawText = arg.messages[2].text

\* C25: parseMessage never throws: a rejection and a failure while the record
\* is built both give null, and a Schedule that is returned has the id
\* '<messageId>-<date>' and archived = false.
C25_NullInsteadOfThrowing ==
    lastOp = "parseMessage" =>
        /\ ~ret.threw
        /\ arg.message.isNaN => ret.value = Null
        /\ ret.value # Null =>
              /\ ret.value.id = <<arg.message.id, ret.value.date>>
              /\ ret.value.messageId = arg.message.id
              /\ ret.value.archived = FALSE

\* C25 witness: a message that passed every check and has a NaN date gave
\* null.
W25_FailureGaveNull ==
    /\ lastOp = "parseMessage"
    /\ arg.message.isNaN
    /\ ret.value = Null
    /\ Len(ret.calls) > 0
    /\ ret.calls[Len(ret.calls)] = "determineScheduleType"

\* ---- FiatLuxService: start-up modes -----------------------------------------
\* EnvManager.hasRequiredCredentials: API_ID and API_HASH set and not starting
\* with 'your_', SESSION_STRING set and not empty.
HasRequiredCredentials_IgnoreSession(e) ==
    /\ e.apiId = "set"
    /\ e.apiHash = "set"

HasRequiredCredentials(e) ==
    /\ e.apiId = "set"
    /\ e.apiHash = "set"
    /\ e.sessionString = "set"

\* initialize() up to its first wait on Telegram: without the credentials the
\* API server listens and initialize returns; with them the monitor is created,
\* the API server listens early and connect() is awaited.
InitializeResult(svc, e) ==
    IF ~HasRequiredCredentials(e)
    THEN [svc EXCEPT !.hasCredentials = "no", !.listening = TRUE,
                     !.listens = svc.listens + 1, !.pc = "returned"]
    ELSE [svc EXCEPT !.hasCredentials = "yes", !.monitor = TRUE,
                     !.listening = TRUE, !.listens = svc.listens + 1,
                     !.pc = "connecting"]

\* The errors TelegramChannelMonitor.connect throws: its own 'NOT_AUTHORIZED',
\* one that names SESSION_STRING, or any other (network, flood wait...).
ConnectErrors == {"NOT_AUTHORIZED", "SESSION_STRING", "OTHER"}

\* await this.telegramMonitor.connect() returned
ConnectedResult(svc) ==
    [svc EXCEPT !.connected = TRUE, !.pc = "loading"]

\* await this.telegramMonitor.connect() threw: both branches of the inner catch
\* log the mode and return.
ConnectFailedResult_Rethrow(svc, err) ==
    [svc EXCEPT !.connectError = err, !.pc = "threw"]

\* the catch of the older initialize, which started the API server there
ConnectFailedResult_ListenAgain(svc, err) ==
    [svc EXCEPT !.connectError = err, !.listens = svc.listens + 1,
                !.pc = "returned"]

ConnectFailedResult(svc, err) ==
    [svc EXCEPT !.connectError = err, !.pc = "returned"]

\* loadRecentSchedules has returned: subscribeToNewMessages(), startPolling().
StartedResult(svc) ==
    [svc EXCEPT !.subscribed = TRUE, !.polling = TRUE, !.pc = "returned"]

\* process.exit: the process and all it held are gone.
ExitResult(svc) ==
    [svc EXCEPT !.polling = FALSE, !.connected = FALSE, !.listening = FALSE,
                !.subscribed = FALSE, !.cycle = "idle", !.pc = "exited"]

\* shutdown() without its first line
ShutdownResult_NoGuard(svc) ==
    LET started == [svc EXCEPT !.isShuttingDown = TRUE, !.polling = FALSE]
    IN  IF svc.monitor /\ svc.connected
        THEN [started EXCEPT !.disconnects = svc.disconnects + 1]
        ELSE ExitResult(started)

\* shutdown() up to its wait on disconnect(): a call made while another is
\* running returns at once; the first sets isShuttingDown, clears the polling
\* timer and, when the monitor is connected, calls disconnect() and waits;
\* otherwise it exits.
ShutdownResult(svc) ==
    IF svc.isShuttingDown THEN svc
    ELSE LET started == [svc EXCEPT !.isShuttingDown = TRUE, !.polling = FALSE]
         IN  IF svc.monitor /\ svc.connected
             THEN [started EXCEPT !.disconnects = svc.disconnects + 1]
             ELSE ExitResult(started)

\* The callback of startPolling up to its wait on getRecentMessages: nothing
\* when the service is shutting down or has no monitor.
PollBeginResult(svc) ==
    IF svc.isShuttingDown \/ ~svc.monitor THEN svc
    ELSE [svc EXCEPT !.cycle = "fetching", !.cycles = svc.cycles + 1]

\* What parseMessages (strict) makes of the channel's messages: schedules for
\* today or tomorrow; a schedule id is made of the message id and the date,
\* so an id stands for one date and one publication time, later ids being
\* published later.
ChannelSchedules(now) ==
    {s \in ScheduleInputs :
        /\ s.date = now + (s.id % 2)
        /\ s.publishedAt = IF s.id > MaxPub THEN MaxPub ELSE s.id}

\* getRecentMessages returns each message once.
PollBatches(now) ==
    UNION {{b \in [1..n -> ChannelSchedules(now)] :
               \A i, j \in 1..n : i # j => b[i].id # b[j].id} : n \in 0..MaxId}

\* for (const schedule of schedules) await this.dataManager.saveSchedule(schedule)
RECURSIVE SaveAllStore(_, _, _)
SaveAllStore(seq, batch, now) ==
    IF batch = <<>> THEN seq
    ELSE SaveAllStore(SaveScheduleStore(seq, Head(batch), now), Tail(batch), now)

\* if (isNew) newCount++
RECURSIVE NewCount(_, _, _)
NewCount(seq, batch, now) ==
    IF batch = <<>> THEN 0
    ELSE (IF SaveScheduleReturn(seq, Head(batch)) THEN 1 ELSE 0)
            + NewCount(SaveScheduleStore(seq, Head(batch), now), Tail(batch), now)

\* What a polling cycle reports: the saveSchedule calls it made, newCount,
\* and the call of updateLastMessageCheck when newCount > 0.
PollReport(seq, batch, now, threw) ==
    LET newCount == IF threw THEN 0 ELSE NewCount(seq, batch, now)
    IN  [threw |-> threw,
         saves |-> IF threw THEN 0 ELSE Len(batch),
         newCount |-> newCount,
         calls |-> IF newCount > 0 THEN <<"updateLastMessageCheck">> ELSE <<>>]

\* The bodies POST /api/setup/credentials receives.
CredentialBodies == [apiId : EnvValues, apiHash : EnvValues]

\* handleSaveCredentials: 400 when a field is missing or API_ID is not a
\* number (the placeholder is not), otherwise updateVariables.
SaveCredentialsStatus(body) ==
    IF body.apiId = "absent" \/ body.apiHash = "absent" THEN 400
    ELSE IF body.apiId = "placeholder" THEN 400
    ELSE 200

SaveCredentialsEnv(e, body) ==
    IF SaveCredentialsStatus(body) = 200
    THEN [e EXCEPT !.apiId = body.apiId, !.apiHash = body.apiHash]
    ELSE e

\* A freshly constructed service under any environment.
InitService ==
    /\ schedules = <<>>
    /\ today = 0
    /\ lastOp = "new"
    /\ arg = Null
    /\ ret = Null
    /\ pending = NoPending
    /\ service = ServiceNew
    /\ env \in Envs
    /\ auth = AuthNew
    /\ monitor = Null

Initialize ==
    /\ service.pc = "constructed"
    /\ service' = InitializeResult(service, env)
    /\ lastOp' = "initialize"
    /\ arg' = Null
    /\ ret' = Null
    /\ UNCHANGED <<schedules, today, pending, env, auth, monitor>>

ConnectSucceeds ==
    /\ service.pc = "connecting"
    /\ service' = ConnectedResult(service)
    /\ lastOp' = "connect"
    /\ arg' = Null
    /\ ret' = Null
    /\ UNCHANGED <<schedules, today, pending, env, auth, monitor>>

ConnectFails ==
    \E err \in ConnectErrors :
        /\ service.pc = "connecting"
        /\ service' = ConnectFailedResult(service, err)
        /\ lastOp' = "connect"
        /\ arg' = Null
        /\ ret' = Null
        /\ UNCHANGED <<schedules, today, pending, env, auth, monitor>>

\* loadRecentSchedules saves what parseMessages found (nothing when
\* getRecentMessages throws: the error is logged), then initialize subscribes
\* and starts polling.
LoadRecentSchedules ==
    \E found \in {<<>>} \cup {<<s>> : s \in ScheduleInputs} :
        /\ service.pc = "loading"
        /\ schedules' = IF Len(found) = 0 THEN schedules
                        ELSE SaveScheduleStore(schedules, found[1], today)
        /\ service' = StartedResult(service)
        /\ lastOp' = "loadRecentSchedules"
        /\ arg' = Null
        /\ ret' = Null
        /\ UNCHANGED <<today, pending, env, auth, monitor>>

\* A signal or an uncaught exception calls shutdown().
Shutdown ==
    /\ service.pc # "exited"
    /\ service' = ShutdownResult(service)
    /\ lastOp' = "shutdown"
    /\ arg' = Null
    /\ ret' = [again |-> service.isShuttingDown]
    /\ UNCHANGED <<schedules, today, pending, env, auth, monitor>>

\* disconnect() has returned or thrown: process.exit(0) or process.exit(1).
Disconnected ==
    \E code \in {0, 1} :
        /\ service.pc # "exited"
        /\ service.isShuttingDown
        /\ service' = ExitResult(service)
        /\ lastOp' = "exit"
        /\ arg' = Null
        /\ ret' = [code |-> code]
        /\ UNCHANGED <<schedules, today, pending, env, auth, monitor>>

\* The polling timer fires.
PollBegin ==
    /\ service.pc # "exited"
    /\ service.polling
    /\ service.cycle = "idle"
    /\ service.cycles < MaxCycles
    /\ service' = PollBeginResult(service)
    /\ lastOp' = "pollBegin"
    /\ arg' = Null
    /\ ret' = Null
    /\ UNCHANGED <<schedules, today, pending, env, auth, monitor>>

\* getRecentMessages has thrown (the cycle logs the error) or returned: the
\* cycle parses, saves every schedule and reports.
PollEnd ==
    \E threw \in BOOLEAN, batch \in PollBatches(today) :
        /\ service.pc # "exited"
        /\ service.cycle = "fetching"
        /\ threw => batch = <<>>
        /\ schedules' = IF threw THEN schedules
                        ELSE SaveAllStore(schedules, batch, today)
        /\ service' = [service EXCEPT !.cycle = "idle"]
        /\ lastOp' = "poll"
        /\ arg' = batch
        /\ ret' = PollReport(schedules, batch, today, threw)
        /\ UNCHANGED <<today, pending, env, auth, monitor>>

SaveCredentials ==
    \E body \in CredentialBodies :
        /\ service.listening
        /\ env' = SaveCredentialsEnv(env, body)
        /\ lastOp' = "handleSaveCredentials"
        /\ arg' = body
        /\ ret' = [status |-> SaveCredentialsStatus(body)]
        /\ UNCHANGED <<schedules, today, pending, service, auth, monitor>>

NextService ==
    \/ Initialize
    \/ ConnectSucceeds
    \/ ConnectFails
    \/ LoadRecentSchedules
    \/ Shutdown
    \/ Disconnected
    \/ PollBegin
    \/ PollEnd
    \/ SaveCredentials

SpecService == InitService /\ [][NextService]_vars

\* ---- FiatLuxService: helpers of the properties --------------------------------
\* The three required credentials are all configured.
AllConfigured(e) ==
    /\ e.apiId = "set"
    /\ e.apiHash = "set"
    /\ e.sessionString = "set"

\* No Telegram monitor was created or connected, nothing subscribed or polls.
NoTelegram(svc) ==
    /\ ~svc.monitor
    /\ ~svc.connected
    /\ ~svc.subscribed
    /\ ~svc.polling

C27_LimitedModeKeepsTheApi ==
    service.connectError # "none"
        => /\ service.hasCredentials = "yes"
           /\ service.pc \in {"returned", "exited"}
           /\ service.pc = "returned" => service.listening
           /\ ~service.subscribed
           /\ ~service.polling
           /\ ~service.connected

\* C27 witness: connect() failed with a network error and initialize returned
\* with the API server listening.
W27_ConnectFailedApiListening ==
    /\ service.connectError = "OTHER"
    /\ service.pc = "returned"
    /\ service.listening
    /\ service.monitor

\* ---- TelegramAuthManager and the auth handlers --------------------------------
\* Time is counted in minutes.  A session id is `session_${Date.now()}_${r}`
\* with r the tail of Math.random() in base 36: its timestamp and one of a few
\* random tails.
Rands == 1..MaxRand

SessionId(now, rand) == [time |-> now, rand |-> rand]

\* The request carried no sessionId (or no code / password).
NoId == [time |-> 0 - 1, rand |-> 0]

\* An id startAuth never returned.
UnknownId == [time |-> 0, rand |-> 0]

ActiveIds(sessions) == {s.id : s \in sessions}

\* Map.prototype.set: the value of an existing key is replaced.
MapSet(sessions, id, status) ==
    {s \in sessions : s.id # id} \cup {[id |-> id, status |-> status]}

\* Map.prototype.delete
MapDelete(sessions, id) == {s \in sessions : s.id # id}

\* What the manager's calls give: the new activeSessions, whether the call threw
\* and with which message, and the fields of the value returned.
AuthResult(sessions, threw, error, success, needsPassword, sessionString, id) ==
    [sessions |-> sessions, threw |-> threw, error |-> error,
     success |-> success, needsPassword |-> needsPassword,
     sessionString |-> sessionString, sessionId |-> id]

\* startAuth: the id is made first; when connect() and sendCode() succeed the
\* session is stored as awaiting_code, otherwise the call throws.
StartAuthResult(sessions, now, rand, sent) ==
    LET sessionId == SessionId(now, rand)
    IN  IF sent
        THEN AuthResult(MapSet(sessions, sessionId, "awaiting_code"), FALSE,
                        "", FALSE, FALSE, "absent", sessionId)
        ELSE AuthResult(sessions, TRUE, "Failed to send verification code",
                        FALSE, FALSE, "absent", NoId)

\* What Telegram answers to SignIn.
SignInOutcomes == {"ok", "SESSION_PASSWORD_NEEDED", "error"}

\* What Telegram answers to CheckPassword.
CheckPasswordOutcomes == {"ok", "error"}

\* What client.session.save() gives.
SavedSessionStrings == {"set", "empty"}

\* submitCode
SubmitCodeResult(sessions, sessionId, outcome, saved) ==
    IF sessionId \notin ActiveIds(sessions)
    THEN AuthResult(sessions, TRUE, "Invalid or expired session",
                    FALSE, FALSE, "absent", sessionId)
    ELSE IF outcome = "ok"
    THEN AuthResult(MapDelete(sessions, sessionId), FALSE, "",
                    TRUE, FALSE, saved, sessionId)
    ELSE IF outcome = "SESSION_PASSWORD_NEEDED"
    THEN AuthResult(MapSet(sessions, sessionId, "awaiting_password"), FALSE, "",
                    FALSE, TRUE, "absent", sessionId)
    ELSE AuthResult(MapDelete(sessions, sessionId), TRUE,
                    "Invalid verification code", FALSE, FALSE, "absent",
                    sessionId)

\* submitPassword that asks only for a known session
SubmitPasswordResult_AnyStatus(sessions, sessionId, outcome, saved) ==
    IF sessionId \notin ActiveIds(sessions)
    THEN AuthResult(sessions, TRUE, "Invalid session or password not required",
                    FALSE, FALSE, "absent", sessionId)
    ELSE IF outcome = "ok"
    THEN AuthResult(MapDelete(sessions, sessionId), FALSE, "",
                    TRUE, FALSE, saved, sessionId)
    ELSE AuthResult(MapDelete(sessions, sessionId), TRUE, "Invalid password",
                    FALSE, FALSE, "absent", sessionId)

\* submitPassword
SubmitPasswordResult(sessions, sessionId, outcome, saved) ==
    IF [id |-> sessionId, status |-> "awaiting_password"] \notin sessions
    THEN AuthResult(sessions, TRUE, "Invalid session or password not required",
                    FALSE, FALSE, "absent", sessionId)
    ELSE IF outcome = "ok"
    THEN AuthResult(MapDelete(sessions, sessionId), FALSE, "",
                    TRUE, FALSE, saved, sessionId)
    ELSE AuthResult(MapDelete(sessions, sessionId), TRUE, "Invalid password",
                    FALSE, FALSE, "absent", sessionId)

\* cleanupOldSessions: a session goes when now - sessionTime > maxAge.
CleanupOldSessionsResult(sessions, now) ==
    {s \in sessions : ~(now - s.id.time > MaxAgeMinutes)}

\* The response of a handler, with the calls it made on the EnvManager.
Response(status, error, success, needsPassword, restartRequired, id, calls) ==
    [status |-> status, error |-> error, success |-> success,
     needsPassword |-> needsPassword, restartRequired |-> restartRequired,
     sessionId |-> id, calls |-> calls]

\* handleAuthCode and handleAuthPassword after the manager's call: the session
\* string is saved when result.success && result.sessionString, and
\* restartRequired is that same condition; a throw is answered with 500.
SessionStringSaved_OnAnyResult(result) ==
    ~result.threw

SessionStringSaved(result) ==
    /\ ~result.threw
    /\ result.success
    /\ result.sessionString = "set"

\* EnvManager.updateVariables({ SESSION_STRING }): process.env and the .env
\* file get the value.
HandleAuthEnv(e, result) ==
    IF SessionStringSaved(result)
    THEN [e EXCEPT !.sessionString = result.sessionString]
    ELSE e

HandleAuthResponse(result) ==
    IF result.threw
    THEN Response(500, result.error, FALSE, FALSE, FALSE, NoId, <<>>)
    ELSE Response(200, "", result.success, result.needsPassword,
                  SessionStringSaved(result), NoId,
                  IF SessionStringSaved(result) THEN <<"updateVariables">>
                  ELSE <<>>)

\* The service in setup mode with API_ID and API_HASH saved or not, the clock
\* at the start of the clean-up timer.
InitAuth ==
    /\ schedules = <<>>
    /\ today = 0
    /\ lastOp = "new"
    /\ arg = Null
    /\ ret = Null
    /\ pending = NoPending
    /\ env \in {e \in Envs : /\ e.sessionString = "absent"
                             /\ e.apiHash = "set"
                             /\ e.apiId \in {"absent", "set"}}
    /\ service = InitializeResult(ServiceNew, env)
    /\ auth = AuthNew
    /\ monitor = Null

\* The instants at which the model looks at the clock: the ticks of the
\* clean-up timer (every CleanupPeriodMinutes from the construction of the
\* ApiServer) and the minute after each tick.
NextInstant(now) ==
    IF now % CleanupPeriodMinutes = 0 THEN now + 1
    ELSE now + (CleanupPeriodMinutes - (now % CleanupPeriodMinutes))

\* Time passes up to the next instant; at a tick of the timer
\* cleanupOldSessions runs.
Tick ==
    /\ NextInstant(auth.clock) <= MaxClock
    /\ auth' = [auth EXCEPT
           !.clock = NextInstant(auth.clock),
           !.sessions = IF NextInstant(auth.clock) % CleanupPeriodMinutes = 0
                        THEN CleanupOldSessionsResult(auth.sessions,
                                                      NextInstant(auth.clock))
                        ELSE auth.sessions]
    /\ lastOp' = "tick"
    /\ arg' = Null
    /\ ret' = Null
    /\ UNCHANGED <<schedules, today, pending, service, env, monitor>>

\* handleAuthStart: 400 without a phone number or without API_ID / API_HASH,
\* 500 when startAuth throws, otherwise the session id.
HandleAuthStart ==
    \E phone \in BOOLEAN, rand \in Rands, sent \in BOOLEAN :
        LET result == StartAuthResult(auth.sessions, auth.clock, rand, sent)
            called == phone /\ env.apiId = "set" /\ env.apiHash # "absent"
        IN  /\ \/ SessionId(auth.clock, rand) \in auth.issued
               \/ Cardinality(auth.issued) < MaxSessions
            /\ auth' = IF called /\ ~result.threw
                       THEN [auth EXCEPT
                                !.sessions = result.sessions,
                                !.issued = auth.issued \cup {result.sessionId}]
                       ELSE auth
            /\ lastOp' = "handleAuthStart"
            /\ arg' = [sessionId |-> NoId, outcome |-> "", sessionString |-> ""]
            /\ ret' = IF ~phone
                      THEN Response(400, "Phone number is required", FALSE,
                                    FALSE, FALSE, NoId, <<>>)
                      ELSE IF ~called
                      THEN Response(400, "API credentials not configured",
                                    FALSE, FALSE, FALSE, NoId, <<>>)
                      ELSE IF result.threw
                      THEN Response(500, result.error, FALSE, FALSE, FALSE,
                                    NoId, <<>>)
                      ELSE Response(200, "", FALSE, FALSE, FALSE,
                                    result.sessionId, <<>>)
            /\ UNCHANGED <<schedules, today, pending, service, env, monitor>>

\* The session ids a request may carry: one startAuth returned, one it never
\* returned, or none.
RequestIds == auth.issued \cup {UnknownId, NoId}

\* handleAuthCode
HandleAuthCode ==
    \E sessionId \in RequestIds, outcome \in SignInOutcomes,
       saved \in SavedSessionStrings :
        LET result == SubmitCodeResult(auth.sessions, sessionId, outcome, saved)
        IN  /\ outcome # "ok" => saved = "set"
            /\ lastOp' = "handleAuthCode"
            /\ arg' = [sessionId |-> sessionId, outcome |-> outcome,
                       sessionString |-> saved]
            /\ IF sessionId = NoId
               THEN /\ ret' = Response(400, "Session ID and code are required",
                                       FALSE, FALSE, FALSE, NoId, <<>>)
                    /\ UNCHANGED <<auth, env>>
               ELSE /\ auth' = [auth EXCEPT !.sessions = result.sessions]
                    /\ env' = HandleAuthEnv(env, result)
                    /\ ret' = HandleAuthResponse(result)
            /\ UNCHANGED <<schedules, today, pending, service, monitor>>

\* handleAuthPassword
HandleAuthPassword ==
    \E sessionId \in RequestIds, outcome \in CheckPasswordOutcomes,
       saved \in SavedSessionStrings :
        LET result == SubmitPasswordResult(auth.sessions, sessionId, outcome,
                                           saved)
        IN  /\ outcome # "ok" => saved = "set"
            /\ lastOp' = "handleAuthPassword"
            /\ arg' = [sessionId |-> sessionId, outcome |-> outcome,
                       sessionString |-> saved]
            /\ IF sessionId = NoId
               THEN /\ ret' = Response(400,
                                       "Session ID and password are required",
                                       FALSE, FALSE, FALSE, NoId, <<>>)
                    /\ UNCHANGED <<auth, env>>
               ELSE /\ auth' = [auth EXCEPT !.sessions = result.sessions]
                    /\ env' = HandleAuthEnv(env, result)
                    /\ ret' = HandleAuthResponse(result)
            /\ UNCHANGED <<schedules, today, pending, service, monitor>>

NextAuth ==
    \/ Tick
    \/ HandleAuthStart
    \/ HandleAuthCode
    \/ HandleAuthPassword

SpecAuth == InitAuth /\ [][NextAuth]_vars

\* ---- auth handlers: helpers of the properties -------------------------------
\* The step is a call of handleAuthCode or handleAuthPassword with a session id.
IsSubmitStep ==
    /\ lastOp' \in {"handleAuthCode", "handleAuthPassword"}
    /\ arg'.sessionId # NoId

\* The errors submitCode and submitPassword give for a session that is not
\* (or no longer) active.
InvalidSessionErrors ==
    {"Invalid or expired session", "Invalid session or password not required"}

\* ---- C28 .. C30 ----------------------------------------------------------------
\* C28: a session is no longer accepted by submitCode or submitPassword once
\* more than 10 minutes have passed since startAuth made it, and clean-up
\* removes no session younger than 10 minutes.
C28_SessionsExpireAfterTenMinutes ==
    [][/\ (IsSubmitStep /\ auth.clock - arg'.sessionId.time > MaxAgeMinutes)
          => /\ ret'.status = 500
             /\ ret'.error \in InvalidSessionErrors
       /\ lastOp' = "tick"
          => \A s \in auth.sessions :
                 s.id \notin ActiveIds(auth'.sessions)
                     => auth'.clock - s.id.time >= MaxAgeMinutes]_vars

\* C29: a session whose authentication completed is removed from the active
\* sessions, a submitCode or submitPassword for a session that is not active
\* fails with an invalid-session error, and the id startAuth returns is not
\* the id of a session already active.
C29_CompletedSessionsGoAndIdsAreUnique ==
    [][/\ (IsSubmitStep /\ ret'.status = 200 /\ ret'.success)
          => arg'.sessionId \notin ActiveIds(auth'.sessions)
       /\ (IsSubmitStep /\ arg'.sessionId \notin ActiveIds(auth.sessions))
          => /\ ret'.status = 500
             /\ ret'.error \in InvalidSessionErrors
       /\ (lastOp' = "handleAuthStart" /\ ret'.status = 200)
          => ret'.sessionId \notin ActiveIds(auth.sessions)]_vars

MonitorNew ==
    [connected |-> FALSE, clientUp |-> FALSE, handler |-> FALSE, handlers |-> 0]

\* What a method of the monitor did: whether it threw, the error, the calls
\* it made on the client, and the messages or the value it returned.
MonitorReturn(threw, error, calls, value) ==
    [threw |-> threw, error |-> error, calls |-> calls, value |-> value]

NotConnected == "Telegram client is not connected"

\* How a connect() goes: client.connect() throws, isUserAuthorized() throws
\* or answers no or yes.
ConnectOutcomes ==
    {"connect throws", "isUserAuthorized throws", "NOT_AUTHORIZED", "ok"}

ConnectMonitor(mon, outcome) ==
    IF outcome = "connect throws" THEN mon
    ELSE IF outcome = "isUserAuthorized throws"
    THEN [mon EXCEPT !.clientUp = TRUE]
    ELSE IF outcome = "NOT_AUTHORIZED"
    THEN [mon EXCEPT !.clientUp = TRUE, !.connected = FALSE]
    ELSE [mon EXCEPT !.clientUp = TRUE, !.connected = TRUE]

\* value is 1 when connect() logged the session string for the .env file:
\* the configuration held none.
ConnectReturn(mon, outcome, e) ==
    IF outcome = "connect throws"
    THEN MonitorReturn(TRUE, "error", <<"connect">>, 0)
    ELSE IF outcome = "isUserAuthorized throws"
    THEN MonitorReturn(TRUE, "error", <<"connect", "isUserAuthorized">>, 0)
    ELSE IF outcome = "NOT_AUTHORIZED"
    THEN MonitorReturn(TRUE, "NOT_AUTHORIZED",
                       <<"connect", "isUserAuthorized">>, 0)
    ELSE MonitorReturn(FALSE, "",
                       <<"connect", "isUserAuthorized", "session.save">>,
                       IF e.sessionString = "set" THEN 0 ELSE 1)

\* getRecentMessages that goes to the client whatever the flag says
GetRecentMessagesReturn_NoGuard(mon, threw, kept) ==
    IF threw THEN MonitorReturn(TRUE, "error", <<"getMessages">>, 0)
    ELSE MonitorReturn(FALSE, "", <<"getMessages">>, kept)

\* getRecentMessages: the messages of the answer that are Api.Message.
GetRecentMessagesReturn(mon, threw, kept) ==
    IF ~mon.connected THEN MonitorReturn(TRUE, NotConnected, <<>>, 0)
    ELSE IF threw THEN MonitorReturn(TRUE, "error", <<"getMessages">>, 0)
    ELSE MonitorReturn(FALSE, "", <<"getMessages">>, kept)

\* subscribeToNewMessages: the handler is kept and an event handler added,
\* filtered by the channel when its entity resolves, unfiltered otherwise.
SubscribeMonitor(mon) ==
    IF ~mon.connected THEN mon
    ELSE [mon EXCEPT !.handler = TRUE, !.handlers = mon.handlers + 1]

SubscribeReturn(mon, resolved) ==
    IF ~mon.connected THEN MonitorReturn(TRUE, NotConnected, <<>>, 0)
    ELSE MonitorReturn(FALSE, "",
                       <<"getInputEntity",
                         IF resolved THEN "addEventHandler(chats)"
                         ELSE "addEventHandler()">>, 0)

\* disconnect: only a connected monitor calls the client, and the flag is
\* cleared after client.disconnect() has returned.
DisconnectMonitor(mon, threw) ==
    IF ~mon.connected THEN mon
    ELSE IF threw THEN mon
    ELSE [mon EXCEPT !.clientUp = FALSE, !.connected = FALSE]

DisconnectReturn(mon, threw) ==
    IF ~mon.connected THEN MonitorReturn(FALSE, "", <<>>, 0)
    ELSE IF threw THEN MonitorReturn(TRUE, "error", <<"disconnect">>, 0)
    ELSE MonitorReturn(FALSE, "", <<"disconnect">>, 0)

\* The monitor the service constructs in initialize() once the credentials
\* are there, with the session string the configuration holds.
InitMonitor ==
    /\ schedules = <<>>
    /\ today = 0
    /\ lastOp = "new"
    /\ arg = Null
    /\ ret = Null
    /\ pending = NoPending
    /\ service = Null
    /\ env \in {e \in Envs : e.apiId = "set" /\ e.apiHash = "set"}
    /\ auth = Null
    /\ monitor = MonitorNew

Connect ==
    \E outcome \in ConnectOutcomes :
        /\ monitor' = ConnectMonitor(monitor, outcome)
        /\ lastOp' = "connect"
        /\ arg' = [outcome |-> outcome]
        /\ ret' = ConnectReturn(monitor, outcome, env)
        /\ UNCHANGED <<schedules, today, pending, service, env, auth>>

GetRecentMessages ==
    \E threw \in BOOLEAN, kept \in 0..MaxMessages :
        /\ threw => kept = 0
        /\ lastOp' = "getRecentMessages"
        /\ arg' = [outcome |-> IF threw THEN "getMessages throws" ELSE "ok"]
        /\ ret' = GetRecentMessagesReturn(monitor, threw, kept)
        /\ UNCHANGED <<schedules, today, pending, service, env, auth, monitor>>

SubscribeToNewMessages ==
    \E resolved \in BOOLEAN :
        /\ monitor.handlers < MaxHandlers
        /\ monitor' = SubscribeMonitor(monitor)
        /\ lastOp' = "subscribeToNewMessages"
        /\ arg' = [outcome |-> IF resolved THEN "resolved" ELSE "not resolved"]
        /\ ret' = SubscribeReturn(monitor, resolved)
        /\ UNCHANGED <<schedules, today, pending, service, env, auth>>

Disconnect ==
    \E threw \in BOOLEAN :
        /\ monitor' = DisconnectMonitor(monitor, threw)
        /\ lastOp' = "disconnect"
        /\ arg' = [outcome |-> IF threw THEN "disconnect throws" ELSE "ok"]
        /\ ret' = DisconnectReturn(monitor, threw)
        /\ UNCHANGED <<schedules, today, pending, service, env, auth>>

IsConnected ==
    /\ lastOp' = "isConnected"
    /\ arg' = [outcome |-> "ok"]
    /\ ret' = MonitorReturn(FALSE, "", <<>>, IF monitor.connected THEN 1 ELSE 0)
    /\ UNCHANGED <<schedules, today, pending, service, env, auth, monitor>>

\* The client raises a NewMessage event: every event handler added passes an
\* Api.Message to messageHandler; value is the number of times it was called.
NewMessageEvent ==
    \E isMessage \in BOOLEAN :
        /\ monitor.clientUp
        /\ monitor.handlers > 0
        /\ lastOp' = "newMessageEvent"
        /\ arg' = [outcome |-> IF isMessage THEN "Api.Message" ELSE "other"]
        /\ ret' = MonitorReturn(FALSE, "", <<>>,
                                IF isMessage /\ monitor.handler
                                THEN monitor.handlers ELSE 0)
        /\ UNCHANGED <<schedules, today, pending, service, env, auth, monitor>>

NextMonitor ==
    \/ Connect
    \/ GetRecentMessages
    \/ SubscribeToNewMessages
    \/ Disconnect
    \/ IsConnected
    \/ NewMessageEvent

SpecMonitor == InitMonitor /\ [][NextMonitor]_vars

\* ---- C31 .. C40 ----------------------------------------------------------------
\* C31: an insert changes no record other than by archiving it; a record dated
\* today or later that is not an earlier-published record of the new record's
\* date is left exactly as it was, and the new record is stored as passed.
C31_InsertOnlyArchivesThePastAndTheOlder ==
    [][(lastOp' = "saveSchedule" /\ ~HasId(schedules, arg'.id))
       => /\ Len(schedules') = Len(schedules) + 1
          /\ schedules'[Len(schedules')] = arg'
          /\ \A i \in Indices(schedules) :
                /\ \/ schedules'[i] = schedules[i]
                   \/ schedules'[i] = [schedules[i] EXCEPT !.archived = TRUE]
                /\ (/\ schedules[i].date >= today
                    /\ ~(/\ schedules[i].date = arg'.date
                         /\ schedules[i].publishedAt < arg'.publishedAt))
                   => schedules'[i] = schedules[i]]_vars

\* C31 witness: an insert happened next to a non-archived record of the same
\* date (today or later) with an equal or later publishedAt; both are
\* non-archived.
W31_InsertNextToLaterSameDate ==
    /\ lastOp = "saveSchedule"
    /\ ret = TRUE
    /\ arg.date >= today
    /\ \E i, j \in Indices(schedules) :
          /\ schedules[j] = arg
          /\ schedules[i].id # arg.id
          /\ schedules[i].date = arg.date
          /\ schedules[i].publishedAt >= arg.publishedAt
          /\ ~schedules[i].archived
          /\ ~schedules[j].archived

\* The records of the store that are not archived.
NonArchived(seq) == {seq[i] : i \in {j \in Indices(seq) : ~seq[j].archived}}

\* C32: the non-archived records after saving schedules with distinct ids on
\* an empty store, on one day, do not depend on the order of the saves: here
\* for two schedules, the store holding the first being the state after the
\* first save.
C32_SaveOrderDoesNotMatter ==
    [][(/\ Len(schedules) = 1
        /\ schedules = SaveScheduleStore(<<>>, schedules[1], today)
        /\ lastOp' = "saveSchedule"
        /\ arg'.id # schedules[1].id)
       => NonArchived(schedules')
             = NonArchived(SaveScheduleStore(
                              SaveScheduleStore(<<>>, arg', today),
                              schedules[1], today))]_vars

\* The answer of getCurrentSchedule or getFutureSchedule is the record r.
Returns(result, r) == result # Null /\ result.id = r.id

IsPollStep == service.cycle = "fetching" /\ lastOp' = "poll"

\* The fetched schedules whose id the store did not hold before the cycle
NewIds(seq, batch) ==
    {batch[i].id : i \in 1..Len(batch)} \ {seq[i].id : i \in 1..Len(seq)}

\* C34: saveSchedule answers true exactly when it inserted a record with a new
\* id, so a polling cycle reports newCount equal to the number of fetched ids
\* the store did not hold, the store grows by exactly that many records, and
\* updateLastMessageCheck is called only when that number is positive.
C34_PollCountsOnlyNewIds ==
    [][IsPollStep =>
        LET new == Cardinality(NewIds(schedules, arg'))
        IN  /\ ret'.newCount = (IF ret'.threw THEN 0 ELSE new)
            /\ Len(schedules') = Len(schedules) + ret'.newCount
            /\ (ret'.calls = <<"updateLastMessageCheck">>) <=> (ret'.newCount > 0)
            /\ (ret'.newCount = 0) => (ret'.calls = <<>>)]_vars

\* a cycle re-fetched only a message the store already held
W34_RefetchedOnlyStoredMessages ==
    /\ lastOp = "poll"
    /\ ~ret.threw
    /\ Len(arg) = 1
    /\ Len(schedules) = 1
    /\ ret.newCount = 0
    /\ ret.calls = <<>>

\* C35: shutdown is idempotent: a call made while an earlier one is still
\* waiting for disconnect returns at its first line and changes nothing, and
\* the monitor's disconnect is called at most once.
C35_ShutdownRunsOnce ==
    [][/\ service'.disconnects <= 1
       /\ (service.isShuttingDown /\ lastOp' = "shutdown") => service' = service
       /\ (service'.isShuttingDown /\ ~service.isShuttingDown)
             => (lastOp' = "shutdown" /\ ~service'.polling)]_vars

W35_SecondShutdownWhileDisconnecting ==
    /\ lastOp = "shutdown"
    /\ ret.again
    /\ service.pc # "exited"
    /\ service.disconnects = 1

\* C36: once shutdown has started polling makes no further saveSchedule call:
\* no new cycle begins its work, and a cycle that was waiting for
\* getRecentMessages when shutdown started does not go on to save schedules.
C36_NoSavesAfterShutdownStarted ==
    [][/\ (service.isShuttingDown /\ lastOp' = "pollBegin")
             => service'.cycle = "idle"
       /\ (service.isShuttingDown /\ IsPollStep)
             => (ret'.saves = 0 /\ schedules' = schedules)]_vars

\* C37: on every path through initialize that returns normally
\* apiServer.listen has been called exactly once, and it is never called twice.
C37_ListenExactlyOnce ==
    /\ service # Null =>
          /\ service.listens <= 1
          /\ service.pc = "returned" => (service.listening /\ service.listens = 1)
          /\ service.pc = "constructed" => service.listens = 0

W37_LimitedModeListenedOnce ==
    /\ service # Null
    /\ service.pc = "returned"
    /\ service.hasCredentials = "yes"
    /\ service.connectError # "none"
    /\ service.listens = 1

\* The session of the request, with the given status
Session(id, status) == [id |-> id, status |-> status]

\* C38: submitPassword is accepted only for a session that is
\* awaiting_password; a session gets that status only when submitCode failed
\* with SESSION_PASSWORD_NEEDED, which keeps the session and answers
\* {success: false, needsPassword: true}; submitPassword on an unknown session
\* or on one awaiting_code is rejected; any other submitCode failure and any
\* submitPassword failure removes the session.
C38_PasswordOnlyAfterCodeAskedForIt ==
    [][LET id == arg'.sessionId
       IN  /\ (lastOp' = "handleAuthPassword" /\ id # NoId) =>
                 IF Session(id, "awaiting_password") \in auth.sessions
                 THEN /\ id \notin ActiveIds(auth'.sessions)
                      /\ ret'.success <=> arg'.outcome = "ok"
                      /\ ret'.status = (IF arg'.outcome = "ok" THEN 200 ELSE 500)
                 ELSE /\ auth'.sessions = auth.sessions
                      /\ ret'.status = 500
                      /\ ret'.error = "Invalid session or password not required"
                      /\ ~ret'.success
           /\ (lastOp' = "handleAuthCode" /\ id \in ActiveIds(auth.sessions)) =>
                 IF arg'.outcome = "SESSION_PASSWORD_NEEDED"
                 THEN /\ Session(id, "awaiting_password") \in auth'.sessions
                      /\ ret'.status = 200
                      /\ ~ret'.success
                      /\ ret'.needsPassword
                 ELSE /\ id \notin ActiveIds(auth'.sessions)
                      /\ ~ret'.needsPassword
                      /\ arg'.outcome = "error" => ret'.status = 500
           /\ \A s \in auth'.sessions \ auth.sessions :
                 s.status = "awaiting_password" =>
                     /\ lastOp' = "handleAuthCode"
                     /\ arg'.outcome = "SESSION_PASSWORD_NEEDED"
                     /\ Session(s.id, "awaiting_code") \in auth.sessions]_vars

\* a password was sent for a session that still awaits its code
W38_PasswordBeforeCodeRejected ==
    /\ lastOp = "handleAuthPassword"
    /\ Session(arg.sessionId, "awaiting_code") \in auth.sessions
    /\ ret.status = 500
    /\ ret.error = "Invalid session or password not required"

\* The part of the text findUkrainianDate is given: what precedes the marker
SearchedText(text) ==
    LET hits == {i \in 1..Len(text) : text[i].k = "marker"}
    IN  IF hits = {} THEN text
        ELSE SubSeq(text, 1, (CHOOSE i \in hits : \A j \in hits : i <= j) - 1)

\* The positions of the day + month-name dates of a text
DatePositions(text) == {i \in 1..Len(text) : text[i].k = "date"}

\* C39: findUkrainianDate returns the first day + month-name date in the text:
\* of several dates with different month names the one that appears earliest
\* in the text is resolved, and with the marker phrase present only the dates
\* before the marker are considered.
C39_EarliestDateInTextIsResolved ==
    lastOp = "extractDate" =>
        LET searched == SearchedText(arg.message.text)
            hits == DatePositions(searched)
        IN  IF hits = {} THEN ret = Null
            ELSE LET first == CHOOSE i \in hits : \A j \in hits : i <= j
                 IN  ret = BuildDateString(searched[first].day,
                                           searched[first].month,
                                           ResolveYear(searched[first].month,
                                                       arg.now))

TypeOK ==
    /\ schedules \in Seq(Schedule)
    /\ today \in 0..MaxToday

====
